---- MODULE Spec2Model ----
(***************************************************************************)
(* Model of the diff / patch subsystem of gojson.                          *)
(*                                                                         *)
(*   package patch  (src/diff/diff.go, second half): ApplyPatch            *)
(*   package diff   (src/diff/diff.go, first half) : DiffJSON,             *)
(*                                                   GeneratePatch         *)
(*   package gojson (src/unnamed/part_001)         : JSONObject.Patch      *)
(*   package jsonpath (src/unnamed/part_003)       : QueryJSONPath         *)
(*                                                                         *)
(* Go strings are sequences of one-character strings.  JSON containers     *)
(* are heap nodes addressed by their index in heap, so that two values     *)
(* can share a sub-tree exactly as two Go pointers do.                     *)
(***************************************************************************)
EXTENDS Integers, Sequences, FiniteSets, TLC

VARIABLES
  heap,    \* the nodes of all JSON containers, by address
  doc,     \* the caller's document
  doc0,    \* the text of the caller's document before the call
  ops,     \* the decoded patch document
  entry,   \* the entry point called: "ApplyPatch", "Patch", "DiffJSON" or
           \* "GeneratePatch"; "parsePath" for a call of that function alone
  pc,      \* a patch call: "start", "loop", "done" or "panic"; a diff call:
           \* "start", "diffed", "compared", "records" or "generated";
           \* a call of parsePath: "start" or "parsed"
  result,  \* the copy the operations are applied to
  idx,     \* the position in ops of the next operation
  err,     \* the error code returned, "" for none
  ret,     \* the document returned: nil or a value
  log,     \* the positions of the operations attempted so far
  target,  \* the second document, when the patch was generated from a diff
  diffRecords,  \* the records of that diff
  diffOptions,  \* the options of the diff
  diffBack,  \* the records of the diff taken the other way round
  patchArray,  \* the patch array GeneratePatch returned
  pathParts  \* the parts parsePath returned

vars == <<heap, doc, doc0, ops, entry, pc, result, idx, err, ret, log, target, diffRecords,
          diffOptions, diffBack, patchArray, pathParts>>

(***************************************************************************)
(* Bounds                                                                  *)
(***************************************************************************)
\* longest patch document (number of operations) of a hand-written patch
MaxOps == 2

(***************************************************************************)
(* Strings                                                                 *)
(***************************************************************************)
\* the characters the model knows, in byte order
CharOrder ==
  << " ", "\"", "$", "'", "*", "+", "-", ".", "/",
     "0", "1", "2", "3", "4", "5", "6", "7", "8", "9", ":",
     "A", "B", "C", "D", "E", "F", "G", "H", "I", "J", "K", "L", "M",
     "N", "O", "P", "Q", "R", "S", "T", "U", "V", "W", "X", "Y", "Z",
     "[", "]", "_",
     "a", "b", "c", "d", "e", "f", "g", "h", "i", "j", "k", "l", "m",
     "n", "o", "p", "q", "r", "s", "t", "u", "v", "w", "x", "y", "z",
     "~" >>

Ord(c) == CHOOSE i \in 1..Len(CharOrder) : CharOrder[i] = c

isLetter(c) == (Ord(c) >= Ord("a") /\ Ord(c) <= Ord("z"))
            \/ (Ord(c) >= Ord("A") /\ Ord(c) <= Ord("Z"))

isDigit(c) == Ord(c) >= Ord("0") /\ Ord(c) <= Ord("9")

DigitVal(c) == Ord(c) - Ord("0")

\* byte-wise lexicographic order, the order of sort.Strings
RECURSIVE StrLess(_, _)
StrLess(a, b) ==
  IF b = <<>> THEN FALSE
  ELSE IF a = <<>> THEN TRUE
  ELSE IF Head(a) = Head(b) THEN StrLess(Tail(a), Tail(b))
  ELSE Ord(Head(a)) < Ord(Head(b))

HasPrefix(s, p) == Len(s) >= Len(p) /\ SubSeq(s, 1, Len(p)) = p

HasSuffix(s, p) == Len(s) >= Len(p) /\ SubSeq(s, Len(s) - Len(p) + 1, Len(s)) = p

\* strings.LastIndex for a one-character separator: 0-based index, -1 if absent
LastIndex(s, c) ==
  IF \E i \in 1..Len(s) : s[i] = c
  THEN (CHOOSE i \in 1..Len(s) : s[i] = c /\ \A j \in (i+1)..Len(s) : s[j] # c) - 1
  ELSE -1

\* strings.Contains for a one-character needle
Contains(s, c) == \E i \in 1..Len(s) : s[i] = c

\* strings.ReplaceAll, non-empty old, left to right, non-overlapping
RECURSIVE ReplaceAll(_, _, _)
ReplaceAll(s, old, new) ==
  IF s = <<>> THEN <<>>
  ELSE IF HasPrefix(s, old)
       THEN new \o ReplaceAll(SubSeq(s, Len(old) + 1, Len(s)), old, new)
       ELSE <<Head(s)>> \o ReplaceAll(Tail(s), old, new)

\* strings.Split for a one-character separator
RECURSIVE Split(_, _)
Split(s, c) ==
  IF ~Contains(s, c) THEN <<s>>
  ELSE LET i == CHOOSE j \in 1..Len(s) : s[j] = c /\ \A k \in 1..(j-1) : s[k] # c
       IN <<SubSeq(s, 1, i - 1)>> \o Split(SubSeq(s, i + 1, Len(s)), c)

\* the value of a run of decimal digits
RECURSIVE DigitsToInt(_)
DigitsToInt(s) ==
  IF s = <<>> THEN 0
  ELSE 10 * DigitsToInt(SubSeq(s, 1, Len(s) - 1)) + DigitVal(s[Len(s)])

\* the decimal text of a non-negative integer, as %d prints it
RECURSIVE IntToStr(_)
IntToStr(n) ==
  IF n < 10 THEN <<CharOrder[Ord("0") + n]>>
  ELSE IntToStr(n \div 10) \o <<CharOrder[Ord("0") + (n % 10)]>>

\* the longest prefix of s made of decimal digits
RECURSIVE DigitPrefix(_)
DigitPrefix(s) ==
  IF s = <<>> \/ ~isDigit(Head(s)) THEN <<>>
  ELSE <<Head(s)>> \o DigitPrefix(Tail(s))

\* strconv.Atoi: optional sign, then one or more digits and nothing else
Atoi(s) ==
  LET body == IF s # <<>> /\ Head(s) \in {"+", "-"} THEN Tail(s) ELSE s
      neg  == s # <<>> /\ Head(s) = "-"
  IN IF body # <<>> /\ \A i \in 1..Len(body) : isDigit(body[i])
     THEN [ok |-> TRUE, n |-> IF neg THEN 0 - DigitsToInt(body) ELSE DigitsToInt(body)]
     ELSE [ok |-> FALSE, n |-> 0]

\* fmt.Sscanf(s, "%d", &index): leading spaces are skipped, an optional sign
\* is read, then the longest run of digits; the rest of the input is ignored
RECURSIVE SkipSpace(_)
SkipSpace(s) == IF s # <<>> /\ Head(s) = " " THEN SkipSpace(Tail(s)) ELSE s

Sscanf_d(s) ==
  LET t    == SkipSpace(s)
      body == IF t # <<>> /\ Head(t) \in {"+", "-"} THEN Tail(t) ELSE t
      neg  == t # <<>> /\ Head(t) = "-"
      ds   == DigitPrefix(body)
  IN IF ds # <<>>
     THEN [ok |-> TRUE, n |-> IF neg THEN 0 - DigitsToInt(ds) ELSE DigitsToInt(ds)]
     ELSE [ok |-> FALSE, n |-> 0]

(***************************************************************************)
(* Value model                                                             *)
(***************************************************************************)
\* a JSONValue: scalars carry their payload, containers the address of
\* their heap node (a Go pointer)
JSONNull == [t |-> "null", n |-> 0, s |-> <<>>]
JSONBool(b) == [t |-> "boolean", n |-> IF b THEN 1 ELSE 0, s |-> <<>>]
JSONNumber(n) == [t |-> "number", n |-> n, s |-> <<>>]
JSONString(s) == [t |-> "string", n |-> 0, s |-> s]
Ref(t, a) == [t |-> t, n |-> a, s |-> <<>>]

IsContainer(v) == v.t \in {"array", "object"}

\* heap nodes
NewJSONObject == [t |-> "object", keys |-> <<>>, props |-> <<>>, elements |-> <<>>]
NewJSONArray == [t |-> "array", keys |-> <<>>, props |-> <<>>, elements |-> <<>>]

\* JSONObject methods; o is the address of the receiver
Has(h, o, key) == key \in DOMAIN h[o].props

Get(h, o, key) == IF Has(h, o, key) THEN h[o].props[key] ELSE JSONNull

Keys(h, o) == h[o].keys

PutNode(node, key, value) ==
  [node EXCEPT
     !.keys = IF key \in DOMAIN node.props THEN node.keys ELSE Append(node.keys, key),
     !.props = [k \in (DOMAIN node.props) \cup {key} |->
                  IF k = key THEN value ELSE node.props[k]]]

Put(h, o, key, value) == [h EXCEPT ![o] = PutNode(h[o], key, value)]

RemoveNode(node, key) ==
  IF key \in DOMAIN node.props
  THEN [node EXCEPT
          !.keys = SelectSeq(node.keys, LAMBDA k : k # key),
          !.props = [k \in (DOMAIN node.props) \ {key} |-> node.props[k]]]
  ELSE node

Remove(h, o, key) == [h EXCEPT ![o] = RemoveNode(h[o], key)]

ObjSize(h, o) == Cardinality(DOMAIN h[o].props)

\* JSONObject.Clone: a new object holding the same member values
Clone(h, o) ==
  [h |-> Append(h, [NewJSONObject EXCEPT !.keys = h[o].keys, !.props = h[o].props]),
   v |-> Ref("object", Len(h) + 1)]

\* JSONArray methods; a is the address of the receiver
Size(h, a) == Len(h[a].elements)

ArrGet(h, a, index) ==
  IF index < 0 \/ index >= Size(h, a) THEN JSONNull ELSE h[a].elements[index + 1]

Add(h, a, value) == [h EXCEPT ![a].elements = Append(@, value)]

ArrSet(h, a, index, value) ==
  LET old == h[a].elements
      n   == IF Len(old) <= index THEN index + 1 ELSE Len(old)
  IN [h EXCEPT ![a].elements =
        [i \in 1..n |-> IF i = index + 1 THEN value
                        ELSE IF i <= Len(old) THEN old[i] ELSE JSONNull]]

\* ArrRemove with the last element taken away instead of the indexed one
ArrRemoveLast(h, a, index) ==
  IF index < 0 \/ index >= Size(h, a) THEN h
  ELSE [h EXCEPT ![a].elements = SubSeq(@, 1, Len(@) - 1)]

ArrRemove(h, a, index) ==
  IF index < 0 \/ index >= Size(h, a) THEN h
  ELSE [h EXCEPT ![a].elements =
          SubSeq(@, 1, index) \o SubSeq(@, index + 2, Len(@))]

(***************************************************************************)
(* JSON text.  A JSON document in text form (a patch value, a marshalled   *)
(* value) is a literal: a tree without addresses.  kids holds the elements *)
(* of an array (k empty) or the members of an object, in text order.       *)
(***************************************************************************)
LNull == [t |-> "null", n |-> 0, s |-> <<>>, kids |-> <<>>]
LBool(b) == [t |-> "boolean", n |-> IF b THEN 1 ELSE 0, s |-> <<>>, kids |-> <<>>]
LNum(n) == [t |-> "number", n |-> n, s |-> <<>>, kids |-> <<>>]
LStr(s) == [t |-> "string", n |-> 0, s |-> s, kids |-> <<>>]
LArr(elems) ==
  [t |-> "array", n |-> 0, s |-> <<>>,
   kids |-> [i \in 1..Len(elems) |-> [k |-> <<>>, v |-> elems[i]]]]
LObj(members) ==
  [t |-> "object", n |-> 0, s |-> <<>>,
   kids |-> [i \in 1..Len(members) |-> [k |-> members[i][1], v |-> members[i][2]]]]
\* an absent "value" field: the RawMessage is empty
NoValue == [t |-> "absent", n |-> 0, s |-> <<>>, kids |-> <<>>]

\* members sorted by key (insertion sort on the byte order of the keys)
RECURSIVE InsertKid(_, _)
InsertKid(kid, sorted) ==
  IF sorted = <<>> THEN <<kid>>
  ELSE IF StrLess(kid.k, Head(sorted).k) THEN <<kid>> \o sorted
  ELSE <<Head(sorted)>> \o InsertKid(kid, Tail(sorted))

RECURSIVE SortKids(_)
SortKids(kids) ==
  IF kids = <<>> THEN <<>> ELSE InsertKid(Head(kids), SortKids(Tail(kids)))

Reverse(seq) == [i \in 1..Len(seq) |-> seq[Len(seq) + 1 - i]]

\* builds a value tree on the heap from a literal, the members of each
\* object being inserted in the order the literal lists them (programmatic
\* construction with Put / Add)
RECURSIVE Build(_, _), BuildSeq(_, _)
BuildSeq(h, kids) ==
  IF kids = <<>> THEN [h |-> h, vs |-> <<>>]
  ELSE LET r1 == Build(h, Head(kids).v)
           r2 == BuildSeq(r1.h, Tail(kids))
       IN [h |-> r2.h, vs |-> <<r1.v>> \o r2.vs]

Build(h, lit) ==
  IF lit.t \notin {"array", "object"}
  THEN [h |-> h, v |-> [t |-> lit.t, n |-> lit.n, s |-> lit.s]]
  ELSE LET r == BuildSeq(h, lit.kids)
           node == IF lit.t = "array"
                   THEN [NewJSONArray EXCEPT !.elements = r.vs]
                   ELSE [NewJSONObject EXCEPT
                           !.keys = [i \in 1..Len(lit.kids) |-> lit.kids[i].k],
                           !.props = [k \in {lit.kids[i].k : i \in 1..Len(lit.kids)} |->
                                        r.vs[CHOOSE i \in 1..Len(lit.kids) : lit.kids[i].k = k]]]
       IN [h |-> Append(r.h, node), v |-> Ref(lit.t, Len(r.h) + 1)]

\* json.Marshal(ValueToInterface(v)): the text of a value; a Go map has no
\* order and json.Marshal writes its keys sorted
RECURSIVE ValueToInterface(_, _)
ValueToInterface(h, v) ==
  IF v.t = "array"
  THEN [t |-> "array", n |-> 0, s |-> <<>>,
        kids |-> [i \in 1..Len(h[v.n].elements) |->
                    [k |-> <<>>, v |-> ValueToInterface(h, h[v.n].elements[i])]]]
  ELSE IF v.t = "object"
  THEN [t |-> "object", n |-> 0, s |-> <<>>,
        kids |-> SortKids([i \in 1..Len(h[v.n].keys) |->
                    [k |-> h[v.n].keys[i],
                     v |-> ValueToInterface(h, h[v.n].props[h[v.n].keys[i]])]])]
  ELSE [t |-> v.t, n |-> v.n, s |-> v.s, kids |-> <<>>]

\* the members of every object of a literal put in the order a range over
\* the decoded Go map visits them: ascending or descending keys
RECURSIVE MapOrder(_, _)
MapOrder(lit, rev) ==
  LET ks == [i \in 1..Len(lit.kids) |->
               [k |-> lit.kids[i].k, v |-> MapOrder(lit.kids[i].v, rev)]]
  IN IF lit.t = "object"
     THEN [lit EXCEPT !.kids = IF rev THEN Reverse(SortKids(ks)) ELSE SortKids(ks)]
     ELSE [lit EXCEPT !.kids = ks]

\* convertToJSONValue(raw) after json.Unmarshal: fresh nodes for every
\* container of the text
convertToJSONValue(h, lit, rev) == Build(h, MapOrder(lit, rev))

\* parser.ParseBytesToValue: an empty input is an error
ParseBytesToValue(h, raw, rev) ==
  IF raw.t = "absent"
  THEN [h |-> h, v |-> JSONNull, err |-> "EMPTY_INPUT"]
  ELSE LET r == convertToJSONValue(h, raw, rev)
       IN [h |-> r.h, v |-> r.v, err |-> ""]

\* deep equality of two value trees (possibly of two heaps): equality of
\* their texts
DeepEqual(h1, v1, h2, v2) == ValueToInterface(h1, v1) = ValueToInterface(h2, v2)

(***************************************************************************)
(* package jsonpath                                                        *)
(***************************************************************************)
Segment(kind) ==
  [kind |-> kind, name |-> <<>>, index |-> 0,
   start |-> 0, end |-> 0, hasStart |-> FALSE, hasEnd |-> FALSE]

\* the longest run of [a-zA-Z0-9_] at the start of s
RECURSIVE IdentRun(_)
IdentRun(s) ==
  IF s = <<>> \/ ~(isLetter(Head(s)) \/ isDigit(Head(s)) \/ Head(s) = "_") THEN <<>>
  ELSE <<Head(s)>> \o IdentRun(Tail(s))

\* the 0-based position just after the bracket that closes path[0] = '[',
\* with the depth left open when the text ends
RECURSIVE ScanBracket(_, _, _)
ScanBracket(path, end, depth) ==
  IF end < Len(path) /\ depth > 0
  THEN ScanBracket(path, end + 1,
                   IF path[end + 1] = "[" THEN depth + 1
                   ELSE IF path[end + 1] = "]" THEN depth - 1 ELSE depth)
  ELSE [end |-> end, depth |-> depth]

parseNextSegment(path) ==
  IF HasPrefix(path, <<".">>)
  THEN IF Len(path) = 1
       THEN [err |-> "INVALID_PATH", seg |-> Segment("none"), consumed |-> 0]
       ELSE IF path[2] = "*"
       THEN [err |-> "", seg |-> Segment("wildcard"), consumed |-> 2]
       ELSE IF isLetter(path[2]) \/ path[2] = "_"
       THEN LET name == <<path[2]>> \o IdentRun(SubSeq(path, 3, Len(path)))
            IN [err |-> "", seg |-> [Segment("property") EXCEPT !.name = name],
                consumed |-> Len(name) + 1]
       ELSE [err |-> "INVALID_PATH", seg |-> Segment("none"), consumed |-> 0]
  ELSE IF HasPrefix(path, <<"[">>)
  THEN LET sc == ScanBracket(path, 1, 1)
           bracketContent == SubSeq(path, 2, sc.end - 1)
           parts == Split(bracketContent, ":")
           quoted(q) == HasPrefix(bracketContent, <<q>>) /\ HasSuffix(bracketContent, <<q>>)
       IN IF sc.depth > 0
          THEN [err |-> "INVALID_PATH", seg |-> Segment("none"), consumed |-> 0]
          ELSE IF bracketContent = <<"*">>
          THEN [err |-> "", seg |-> Segment("wildcard"), consumed |-> sc.end]
          ELSE IF Atoi(bracketContent).ok
          THEN [err |-> "",
                seg |-> [Segment("index") EXCEPT !.index = Atoi(bracketContent).n],
                consumed |-> sc.end]
          ELSE IF Contains(bracketContent, ":") /\ Len(parts) = 2
          THEN [err |-> "",
                seg |-> [Segment("slice") EXCEPT
                           !.hasStart = parts[1] # <<>>,
                           !.start = IF Atoi(parts[1]).ok THEN Atoi(parts[1]).n ELSE 0,
                           !.hasEnd = parts[2] # <<>>,
                           !.end = IF Atoi(parts[2]).ok THEN Atoi(parts[2]).n ELSE 0],
                consumed |-> sc.end]
          ELSE IF quoted("'") \/ quoted("\"")
          \* a content of one quote character is its own prefix and suffix:
          \* bracketContent[1 : len-1] is then bracketContent[1:0], a panic
          THEN IF Len(bracketContent) < 2
               THEN [err |-> "PANIC", seg |-> Segment("none"), consumed |-> 0]
               ELSE [err |-> "",
                     seg |-> [Segment("property") EXCEPT
                                !.name = SubSeq(bracketContent, 2, Len(bracketContent) - 1)],
                     consumed |-> sc.end]
          ELSE [err |-> "INVALID_PATH", seg |-> Segment("none"), consumed |-> 0]
  ELSE [err |-> "INVALID_PATH", seg |-> Segment("none"), consumed |-> 0]

RECURSIVE ParseSegments(_)
ParseSegments(path) ==
  LET withRest(r, rest) ==
        IF rest.err # "" THEN rest
        ELSE [err |-> "", segments |-> <<r.seg>> \o rest.segments]
      withSegment(r) ==
        IF r.err # "" THEN [err |-> r.err, segments |-> <<>>]
        ELSE withRest(r, ParseSegments(SubSeq(path, r.consumed + 1, Len(path))))
  IN IF path = <<>> THEN [err |-> "", segments |-> <<>>]
     ELSE withSegment(parseNextSegment(path))

ParseJSONPath(path) ==
  LET withRoot(r) ==
        IF r.err # "" THEN r
        ELSE [err |-> "", segments |-> <<Segment("root")>> \o r.segments]
  IN IF path = <<>> THEN [err |-> "INVALID_PATH", segments |-> <<>>]
     ELSE IF ~HasPrefix(path, <<"$">>) THEN [err |-> "INVALID_PATH", segments |-> <<>>]
     ELSE withRoot(ParseSegments(Tail(path)))

\* pathSegment.apply for the five kinds of segment
sliceApply(h, seg, value) ==
  LET size   == Size(h, value.n)
      start0 == IF seg.hasStart THEN seg.start ELSE 0
      end0   == IF seg.hasEnd THEN seg.end ELSE size
      start1 == IF start0 < 0 THEN size + start0 ELSE start0
      end1   == IF end0 < 0 THEN size + end0 ELSE end0
      start  == IF start1 < 0 THEN 0 ELSE start1
      end    == IF end1 > size THEN size ELSE end1
  IN IF start >= size \/ start >= end THEN <<>>
     ELSE [i \in 1..(end - start) |-> ArrGet(h, value.n, start + i - 1)]

apply(h, seg, value) ==
  CASE seg.kind = "root" -> [err |-> "", results |-> <<value>>]
    [] seg.kind = "property" ->
         IF value.t # "object" THEN [err |-> "INVALID_TYPE", results |-> <<>>]
         ELSE LET prop == Get(h, value.n, seg.name)
              IN IF prop.t = "null" /\ ~Has(h, value.n, seg.name)
                 THEN [err |-> "", results |-> <<>>]
                 ELSE [err |-> "", results |-> <<prop>>]
    [] seg.kind = "index" ->
         IF value.t # "array" THEN [err |-> "INVALID_TYPE", results |-> <<>>]
         ELSE IF seg.index < 0 \/ seg.index >= Size(h, value.n)
              THEN [err |-> "", results |-> <<>>]
              ELSE [err |-> "", results |-> <<ArrGet(h, value.n, seg.index)>>]
    [] seg.kind = "wildcard" ->
         IF value.t = "object"
         THEN [err |-> "",
               results |-> [i \in 1..Len(Keys(h, value.n)) |->
                              Get(h, value.n, Keys(h, value.n)[i])]]
         ELSE IF value.t = "array"
         THEN [err |-> "", results |-> h[value.n].elements]
         ELSE [err |-> "INVALID_TYPE", results |-> <<>>]
    [] seg.kind = "slice" ->
         IF value.t # "array" THEN [err |-> "INVALID_TYPE", results |-> <<>>]
         ELSE [err |-> "", results |-> sliceApply(h, seg, value)]

\* one segment applied to every current value, the first error returned
RECURSIVE applyAll(_, _, _)
applyAll(h, seg, current) ==
  LET withRest(r1, r2) ==
        IF r2.err # "" THEN r2
        ELSE [err |-> "", results |-> r1.results \o r2.results]
      withFirst(r1) ==
        IF r1.err # "" THEN r1
        ELSE withRest(r1, applyAll(h, seg, Tail(current)))
  IN IF current = <<>> THEN [err |-> "", results |-> <<>>]
     ELSE withFirst(apply(h, seg, Head(current)))

RECURSIVE Query(_, _, _)
Query(h, segments, current) ==
  LET next(r) == IF r.err # "" THEN r ELSE Query(h, Tail(segments), r.results)
  IN IF segments = <<>> \/ current = <<>> THEN [err |-> "", results |-> current]
     ELSE next(applyAll(h, Head(segments), current))

QueryJSONPath(h, value, pathExpr) ==
  LET query(path) ==
        IF path.err # "" THEN [err |-> path.err, results |-> <<>>]
        ELSE Query(h, path.segments, <<value>>)
  IN query(ParseJSONPath(pathExpr))

(***************************************************************************)
(* package patch                                                           *)
(***************************************************************************)
\* a patch operation as json.Unmarshal leaves it: an absent "from" or
\* "path" is the empty string, an absent "value" an empty RawMessage
PatchOperation(op, path, value, from) ==
  [op |-> op, path |-> path, value |-> value, from |-> from]

\* the outcome of an operation: the heap after it, the value it returns
\* and its error code ("" for none, "PANIC" for a runtime panic)
Ok(h, v) == [h |-> h, v |-> v, err |-> ""]
Fail(h, code) == [h |-> h, v |-> JSONNull, err |-> code]

isArrayIndex(s) ==
  IF s = <<"0">> THEN TRUE
  ELSE IF Len(s) > 0 /\ s[1] # "0" THEN \A i \in 1..Len(s) : isDigit(s[i])
  ELSE FALSE

\* unescape replacing ~0 before ~1
unescapeTildeFirst(part) ==
  ReplaceAll(ReplaceAll(part, <<"~", "0">>, <<"~">>), <<"~", "1">>, <<"/">>)

unescape(part) == ReplaceAll(ReplaceAll(part, <<"~", "1">>, <<"/">>), <<"~", "0">>, <<"~">>)

RECURSIVE normalizeParts(_)
normalizeParts(parts) ==
  IF parts = <<>> THEN <<>>
  ELSE LET part == unescape(Head(parts))
       IN (IF isArrayIndex(part) THEN <<"[">> \o part \o <<"]">> ELSE <<".">> \o part)
          \o normalizeParts(Tail(parts))

normalizePath(path) ==
  IF path = <<>> THEN <<>>
  ELSE LET parts0 == Split(path, "/")
           parts  == IF Len(parts0) > 0 /\ parts0[1] = <<>> THEN Tail(parts0) ELSE parts0
       IN <<"$">> \o normalizeParts(parts)

\* splitPath: parent path and last segment; path[1:] of an empty path is a
\* slice out of range
splitPath(path) ==
  LET lastOpenBracket == LastIndex(path, "[")
      lastDot == LastIndex(path, ".")
  IN IF HasSuffix(path, <<"]">>) /\ lastOpenBracket # -1
     THEN [panic |-> FALSE, parent |-> SubSeq(path, 1, lastOpenBracket),
           last |-> SubSeq(path, lastOpenBracket + 2, Len(path) - 1)]
     ELSE IF lastDot # -1
     THEN [panic |-> FALSE, parent |-> SubSeq(path, 1, lastDot),
           last |-> SubSeq(path, lastDot + 2, Len(path))]
     ELSE IF Len(path) = 0
     THEN [panic |-> TRUE, parent |-> <<>>, last |-> <<>>]
     ELSE [panic |-> FALSE, parent |-> <<"$">>, last |-> Tail(path)]

parseArrayIndex(indexStr, arraySize) ==
  IF indexStr = <<"-">> THEN [err |-> "", index |-> arraySize]
  ELSE LET r == Sscanf_d(indexStr)
       IN IF ~r.ok \/ r.n < 0 THEN [err |-> "INVALID_INDEX", index |-> 0]
          ELSE [err |-> "", index |-> r.n]

\* the parent lookup all operations share: the first result of the query,
\* PATH_NOT_FOUND when it fails or is empty
queryFirst(h, value, pathExpr) ==
  LET first(q) ==
        IF q.err = "PANIC" THEN [err |-> "PANIC", v |-> JSONNull]
        ELSE IF q.err # "" \/ Len(q.results) = 0 THEN [err |-> "PATH_NOT_FOUND", v |-> JSONNull]
        ELSE [err |-> "", v |-> q.results[1]]
  IN first(QueryJSONPath(h, value, pathExpr))

\* insertAt writing over the element at index instead of shifting it
insertAtOverwriting(h, arr, index, newValue) ==
  IF index = Size(h, arr) THEN Add(h, arr, newValue)
  ELSE ArrSet(h, arr, index, newValue)

\* the array insertion of applyAddOperation
insertAt(h, arr, index, newValue) ==
  IF index = Size(h, arr) THEN Add(h, arr, newValue)
  ELSE [h EXCEPT ![arr].elements =
          [j \in 1..(Size(h, arr) + 1) |->
             LET i == j - 1
             IN IF i < index THEN ArrGet(h, arr, i)
                ELSE IF i = index THEN newValue
                ELSE ArrGet(h, arr, i - 1)]]

\* applyAddOperation after the value has been parsed
addValue(h, value, path, newValue) ==
  LET insert(parent, pi) ==
        IF pi.err # "" THEN Fail(h, pi.err)
        ELSE Ok(insertAt(h, parent.n, pi.index, newValue), value)
      into(sp, pq) ==
        IF sp.panic THEN Fail(h, "PANIC")
        ELSE IF pq.err # "" THEN Fail(h, pq.err)
        ELSE IF pq.v.t = "object" THEN Ok(Put(h, pq.v.n, sp.last, newValue), value)
        ELSE IF pq.v.t = "array"
        THEN insert(pq.v, parseArrayIndex(sp.last, Size(h, pq.v.n)))
        ELSE Fail(h, "INVALID_TYPE")
  IN IF path = <<"$">> THEN Ok(h, newValue)
     ELSE into(splitPath(path), queryFirst(h, value, splitPath(path).parent))

applyAddOperation(h, value, path, rawValue, rev) ==
  LET add(pv) ==
        IF pv.err # "" THEN Fail(h, "INVALID_PATCH")
        ELSE addValue(pv.h, value, path, pv.v)
  IN add(ParseBytesToValue(h, rawValue, rev))

applyRemoveOperation(h, value, path) ==
  LET removeAt(parent, pi) ==
        IF pi.err # "" THEN Fail(h, pi.err)
        ELSE IF pi.index >= Size(h, parent.n) THEN Fail(h, "INDEX_OUT_OF_RANGE")
        ELSE Ok(ArrRemove(h, parent.n, pi.index), value)
      from(sp, pq) ==
        IF sp.panic THEN Fail(h, "PANIC")
        ELSE IF pq.err # "" THEN Fail(h, pq.err)
        ELSE IF pq.v.t = "object"
        THEN IF ~Has(h, pq.v.n, sp.last) THEN Fail(h, "PATH_NOT_FOUND")
             ELSE Ok(Remove(h, pq.v.n, sp.last), value)
        ELSE IF pq.v.t = "array"
        THEN removeAt(pq.v, parseArrayIndex(sp.last, Size(h, pq.v.n)))
        ELSE Fail(h, "INVALID_TYPE")
  IN IF path = <<"$">> THEN Ok(h, JSONNull)
     ELSE from(splitPath(path), queryFirst(h, value, splitPath(path).parent))

applyReplaceOperation(h, value, path, rawValue, rev) ==
  LET setAt(pv, parent, pi) ==
        IF pi.err # "" THEN Fail(h, pi.err)
        ELSE IF pi.index >= Size(pv.h, parent.n) THEN Fail(h, "INDEX_OUT_OF_RANGE")
        ELSE Ok(ArrSet(pv.h, parent.n, pi.index, pv.v), value)
      at(pv, sp, pq) ==
        IF sp.panic THEN Fail(h, "PANIC")
        ELSE IF pq.err # "" THEN Fail(h, pq.err)
        ELSE IF pq.v.t = "object"
        THEN IF ~Has(pv.h, pq.v.n, sp.last) THEN Fail(h, "PATH_NOT_FOUND")
             ELSE Ok(Put(pv.h, pq.v.n, sp.last, pv.v), value)
        ELSE IF pq.v.t = "array"
        THEN setAt(pv, pq.v, parseArrayIndex(sp.last, Size(pv.h, pq.v.n)))
        ELSE Fail(h, "INVALID_TYPE")
      replace(pv) ==
        IF pv.err # "" THEN Fail(h, "INVALID_PATCH")
        ELSE IF path = <<"$">> THEN Ok(pv.h, pv.v)
        ELSE at(pv, splitPath(path), queryFirst(pv.h, value, splitPath(path).parent))
  IN replace(ParseBytesToValue(h, rawValue, rev))

applyMoveOperation(h, value, from, path, rev) ==
  LET move(src, rm) ==
        IF src.err # "" THEN Fail(h, src.err)
        ELSE IF rm.err # "" THEN Fail(rm.h, rm.err)
        ELSE applyAddOperation(rm.h, rm.v, path, ValueToInterface(rm.h, src.v), rev)
  IN move(queryFirst(h, value, from), applyRemoveOperation(h, value, from))

applyCopyOperation(h, value, from, path, rev) ==
  LET copy(src) ==
        IF src.err # "" THEN Fail(h, src.err)
        ELSE applyAddOperation(h, value, path, ValueToInterface(h, src.v), rev)
  IN copy(queryFirst(h, value, from))

\* compareValues without the comparison of the sizes of two objects
RECURSIVE compareValuesAnySize(_, _, _)
compareValuesAnySize(h, a, b) ==
  IF a.t # b.t THEN FALSE
  ELSE CASE a.t = "null" -> TRUE
         [] a.t = "boolean" -> a.n = b.n
         [] a.t = "number" -> a.n = b.n
         [] a.t = "string" -> a.s = b.s
         [] a.t = "array" ->
              IF Size(h, a.n) # Size(h, b.n) THEN FALSE
              ELSE \A i \in 0..(Size(h, a.n) - 1) :
                     compareValuesAnySize(h, ArrGet(h, a.n, i), ArrGet(h, b.n, i))
         [] a.t = "object" ->
              \A i \in 1..Len(Keys(h, a.n)) :
                 LET key == Keys(h, a.n)[i]
                 IN Has(h, b.n, key)
                    /\ compareValuesAnySize(h, Get(h, a.n, key), Get(h, b.n, key))
         [] OTHER -> FALSE

RECURSIVE compareValues(_, _, _)
compareValues(h, a, b) ==
  IF a.t # b.t THEN FALSE
  ELSE CASE a.t = "null" -> TRUE
         [] a.t = "boolean" -> a.n = b.n
         [] a.t = "number" -> a.n = b.n
         [] a.t = "string" -> a.s = b.s
         [] a.t = "array" ->
              IF Size(h, a.n) # Size(h, b.n) THEN FALSE
              ELSE \A i \in 0..(Size(h, a.n) - 1) :
                     compareValues(h, ArrGet(h, a.n, i), ArrGet(h, b.n, i))
         [] a.t = "object" ->
              IF ObjSize(h, a.n) # ObjSize(h, b.n) THEN FALSE
              ELSE \A i \in 1..Len(Keys(h, a.n)) :
                     LET key == Keys(h, a.n)[i]
                     IN Has(h, b.n, key)
                        /\ compareValues(h, Get(h, a.n, key), Get(h, b.n, key))
         [] OTHER -> FALSE

applyTestOperation(h, value, path, rawValue, rev) ==
  LET compare(pv, tq) ==
        IF tq.err # "" THEN Fail(h, tq.err)
        ELSE IF ~compareValues(pv.h, tq.v, pv.v) THEN Fail(h, "TEST_FAILED")
        ELSE Ok(h, value)
      test(pv) ==
        IF pv.err # "" THEN Fail(h, "INVALID_PATCH")
        ELSE compare(pv, queryFirst(pv.h, value, path))
  IN test(ParseBytesToValue(h, rawValue, rev))

applyOperation(h, value, op, rev) ==
  LET path == normalizePath(op.path)
      from == normalizePath(op.from)
  IN CASE op.op = "add" -> applyAddOperation(h, value, path, op.value, rev)
       [] op.op = "remove" -> applyRemoveOperation(h, value, path)
       [] op.op = "replace" -> applyReplaceOperation(h, value, path, op.value, rev)
       [] op.op = "move" -> applyMoveOperation(h, value, from, path, rev)
       [] op.op = "copy" -> applyCopyOperation(h, value, from, path, rev)
       [] op.op = "test" -> applyTestOperation(h, value, path, op.value, rev)
       [] OTHER -> Fail(h, "INVALID_PATCH")

\* the copy ApplyPatch works on
cloneRoot(h, value) ==
  IF value.t = "object" THEN Clone(h, value.n)
  ELSE IF value.t = "array"
  THEN [h |-> Append(h, [NewJSONArray EXCEPT !.elements = h[value.n].elements]),
        v |-> Ref("array", Len(h) + 1)]
  ELSE [h |-> h, v |-> value]

(***************************************************************************)
(* package diff                                                            *)
(***************************************************************************)
DefaultDiffOptions ==
  [IgnoreCase |-> FALSE, IgnoreWhitespace |-> FALSE, IgnoreOrder |-> FALSE,
   IncludeSame |-> FALSE, MaxDepth |-> 0]

Diff(type, path, oldValue, newValue) ==
  [Type |-> type, Path |-> path, OldValue |-> oldValue, NewValue |-> newValue]

\* strings.ToLower on the characters of the model
ToLower(s) ==
  [i \in 1..Len(s) |->
     IF Ord(s[i]) >= Ord("A") /\ Ord(s[i]) <= Ord("Z")
     THEN CharOrder[Ord(s[i]) - Ord("A") + Ord("a")] ELSE s[i]]

removeWhitespace(s) == SelectSeq(s, LAMBDA c : c # " ")

isValidIdentifier(s) ==
  IF Len(s) = 0 THEN FALSE
  ELSE IF ~isLetter(s[1]) /\ s[1] # "_" THEN FALSE
  ELSE \A i \in 2..Len(s) : isLetter(s[i]) \/ isDigit(s[i]) \/ s[i] = "_"

\* leafDiff reporting equal scalars whatever the options say
leafDiffKeepsSame(path, oldValue, newValue, same, options) ==
  IF same THEN <<Diff("same", path, oldValue, newValue)>>
  ELSE <<Diff("modified", path, oldValue, newValue)>>

\* the same or modified record of a scalar comparison
leafDiff(path, oldValue, newValue, same, options) ==
  IF same
  THEN IF options.IncludeSame THEN <<Diff("same", path, oldValue, newValue)>> ELSE <<>>
  ELSE <<Diff("modified", path, oldValue, newValue)>>

diffBooleans(path, oldValue, newValue, options) ==
  leafDiff(path, oldValue, newValue, oldValue.n = newValue.n, options)

diffNumbers(path, oldValue, newValue, options) ==
  leafDiff(path, oldValue, newValue, oldValue.n = newValue.n, options)

diffStrings(path, oldValue, newValue, options) ==
  LET lower(x) == IF options.IgnoreCase THEN ToLower(x) ELSE x
      strip(x) == IF options.IgnoreWhitespace THEN removeWhitespace(x) ELSE x
  IN leafDiff(path, oldValue, newValue,
              strip(lower(oldValue.s)) = strip(lower(newValue.s)), options)

RECURSIVE InsertKey(_, _)
InsertKey(key, sorted) ==
  IF sorted = <<>> THEN <<key>>
  ELSE IF StrLess(key, Head(sorted)) THEN <<key>> \o sorted
  ELSE <<Head(sorted)>> \o InsertKey(key, Tail(sorted))

RECURSIVE SortStrings(_)
SortStrings(keys) ==
  IF keys = <<>> THEN <<>> ELSE InsertKey(Head(keys), SortStrings(Tail(keys)))

RECURSIVE Dedup(_, _)
Dedup(keys, seen) ==
  IF keys = <<>> THEN <<>>
  ELSE IF Head(keys) \in seen THEN Dedup(Tail(keys), seen)
  ELSE <<Head(keys)>> \o Dedup(Tail(keys), seen \cup {Head(keys)})

\* mergeKeys leaving out the keys of the second list
mergeKeysOfFirst(a, b) == SortStrings(Dedup(a, {}))

\* mergeKeys without the sort
mergeKeysUnsorted(a, b) == Dedup(a \o b, {})

mergeKeys(a, b) == SortStrings(Dedup(a \o b, {}))

\* propPath quoting a key that is no identifier at the root as well
propPathQuoting(path, key) ==
  IF isValidIdentifier(key) THEN path \o <<".">> \o key
  ELSE path \o <<"[", "'">> \o key \o <<"'", "]">>

propPath(path, key) ==
  IF path = <<"$">> THEN <<"$", ".">> \o key
  ELSE IF isValidIdentifier(key) THEN path \o <<".">> \o key
  ELSE path \o <<"[", "'">> \o key \o <<"'", "]">>

RECURSIVE diffValues(_, _, _, _, _, _), diffArraysInOrder(_, _, _, _, _, _, _),
          diffKeys(_, _, _, _, _, _, _)

\* the loop of diffArraysInOrder from index i on
diffArraysInOrder(h, path, oldArr, newArr, options, depth, i) ==
  LET maxLen == IF Size(h, newArr) > Size(h, oldArr) THEN Size(h, newArr) ELSE Size(h, oldArr)
      itemPath == path \o <<"[">> \o IntToStr(i) \o <<"]">>
      here == IF i >= Size(h, oldArr)
              THEN <<Diff("added", itemPath, JSONNull, ArrGet(h, newArr, i))>>
              ELSE IF i >= Size(h, newArr)
              THEN <<Diff("removed", itemPath, ArrGet(h, oldArr, i), JSONNull)>>
              ELSE diffValues(h, itemPath, ArrGet(h, oldArr, i), ArrGet(h, newArr, i),
                              options, depth + 1)
  IN IF i >= maxLen THEN <<>>
     ELSE here \o diffArraysInOrder(h, path, oldArr, newArr, options, depth, i + 1)

diffArraysAsSet(h, path, oldArr, newArr, options, depth) ==
  diffArraysInOrder(h, path, oldArr, newArr, options, depth, 0)

diffArrays(h, path, oldValue, newValue, options, depth) ==
  IF options.IgnoreOrder
  THEN diffArraysAsSet(h, path, oldValue.n, newValue.n, options, depth)
  ELSE diffArraysInOrder(h, path, oldValue.n, newValue.n, options, depth, 0)

\* the loop of diffObjects over the merged keys
diffKeys(h, path, oldObj, newObj, options, depth, allKeys) ==
  IF allKeys = <<>> THEN <<>>
  ELSE LET key == Head(allKeys)
           pp == propPath(path, key)
           oldHas == Has(h, oldObj, key)
           newHas == Has(h, newObj, key)
           here == IF oldHas /\ newHas
                   THEN diffValues(h, pp, Get(h, oldObj, key), Get(h, newObj, key),
                                   options, depth + 1)
                   ELSE IF oldHas
                   THEN <<Diff("removed", pp, Get(h, oldObj, key), JSONNull)>>
                   ELSE <<Diff("added", pp, JSONNull, Get(h, newObj, key))>>
       IN here \o diffKeys(h, path, oldObj, newObj, options, depth, Tail(allKeys))

diffObjects(h, path, oldValue, newValue, options, depth) ==
  diffKeys(h, path, oldValue.n, newValue.n, options, depth,
           mergeKeys(Keys(h, oldValue.n), Keys(h, newValue.n)))

diffValues(h, path, oldValue, newValue, options, depth) ==
  IF options.MaxDepth > 0 /\ depth > options.MaxDepth THEN <<>>
  ELSE IF oldValue.t = "null" /\ newValue.t = "null"
  THEN IF options.IncludeSame THEN <<Diff("same", path, oldValue, newValue)>> ELSE <<>>
  ELSE IF oldValue.t = "null" THEN <<Diff("added", path, oldValue, newValue)>>
  ELSE IF newValue.t = "null" THEN <<Diff("removed", path, oldValue, newValue)>>
  ELSE IF oldValue.t # newValue.t THEN <<Diff("type_changed", path, oldValue, newValue)>>
  ELSE CASE oldValue.t = "boolean" -> diffBooleans(path, oldValue, newValue, options)
         [] oldValue.t = "number" -> diffNumbers(path, oldValue, newValue, options)
         [] oldValue.t = "string" -> diffStrings(path, oldValue, newValue, options)
         [] oldValue.t = "array" -> diffArrays(h, path, oldValue, newValue, options, depth)
         [] oldValue.t = "object" -> diffObjects(h, path, oldValue, newValue, options, depth)

DiffJSON(h, oldValue, newValue, options) ==
  diffValues(h, <<"$">>, oldValue, newValue, options, 0)

jsonPathToPatchPath(path) ==
  IF path = <<"$">> THEN <<>>
  ELSE LET r1 == ReplaceAll(Tail(path), <<".">>, <<"/">>)
           r2 == ReplaceAll(r1, <<"[">>, <<"/">>)
           r3 == ReplaceAll(r2, <<"]">>, <<>>)
           r4 == ReplaceAll(r3, <<"~">>, <<"~", "0">>)
           r5 == ReplaceAll(r4, <<"/">>, <<"~", "1">>)
       IN <<"/">> \o r5

\* GeneratePatch turning a type_changed record into a replace
GeneratePatchReplacingTypeChanged(diffs) ==
  LET kept == SelectSeq(diffs, LAMBDA d :
                  d.Type \in {"added", "removed", "modified", "type_changed"})
  IN [i \in 1..Len(kept) |->
        IF kept[i].Type = "added"
        THEN [op |-> "add", path |-> jsonPathToPatchPath(kept[i].Path),
              hasValue |-> TRUE, value |-> kept[i].NewValue]
        ELSE IF kept[i].Type = "removed"
        THEN [op |-> "remove", path |-> jsonPathToPatchPath(kept[i].Path),
              hasValue |-> FALSE, value |-> JSONNull]
        ELSE [op |-> "replace", path |-> jsonPathToPatchPath(kept[i].Path),
              hasValue |-> TRUE, value |-> kept[i].NewValue]]

\* GeneratePatch: the operation objects of the patch array, in order; the
\* value member holds the record's NewValue itself
RECURSIVE GeneratePatch(_)
GeneratePatch(diffs) ==
  IF diffs = <<>> THEN <<>>
  ELSE LET d == Head(diffs)
           p == jsonPathToPatchPath(d.Path)
           here == CASE d.Type = "added" ->
                          <<[op |-> "add", path |-> p, hasValue |-> TRUE, value |-> d.NewValue]>>
                     [] d.Type = "removed" ->
                          <<[op |-> "remove", path |-> p, hasValue |-> FALSE, value |-> JSONNull]>>
                     [] d.Type = "modified" ->
                          <<[op |-> "replace", path |-> p, hasValue |-> TRUE, value |-> d.NewValue]>>
                     [] OTHER -> <<>>
       IN here \o GeneratePatch(Tail(diffs))

\* the patch array written as JSON text and decoded by ApplyPatch into its
\* list of PatchOperation
patchOperations(h, patch) ==
  [i \in 1..Len(patch) |->
     PatchOperation(patch[i].op, patch[i].path,
                    IF patch[i].hasValue THEN ValueToInterface(h, patch[i].value) ELSE NoValue,
                    <<>>)]

(***************************************************************************)
(* package gojson: JSONObject.Patch                                        *)
(***************************************************************************)
\* the outcome of a method of the receiver: the heap after it and the
\* error ("" for none, "PATCH_ERROR" for a *PatchError, "PANIC")
Done(h) == [h |-> h, err |-> ""]
Error(h) == [h |-> h, err |-> "PATCH_ERROR"]

parsePath(path) ==
  IF path = <<>> \/ path = <<"/">> THEN <<>>
  ELSE LET p1 == IF path[1] = "/" THEN Tail(path) ELSE path
           parts == Split(p1, "/")
       IN [i \in 1..Len(parts) |-> unescape(parts[i])]

gojson_parseArrayIndex(indexStr, arraySize) ==
  IF indexStr = <<"-">> THEN [err |-> "", index |-> arraySize]
  ELSE LET r == Sscanf_d(indexStr)
       IN IF ~r.ok THEN [err |-> "PATCH_ERROR", index |-> -1]
          ELSE IF r.n < 0 THEN [err |-> "PATCH_ERROR", index |-> -1]
          ELSE [err |-> "", index |-> r.n]

\* the traversal shared by getValueAtPath, findParent and the check of the
\* intermediate path of add: one step per part, from current
RECURSIVE walk(_, _, _)
walk(h, current, parts) ==
  IF parts = <<>> THEN [err |-> "", v |-> current]
  ELSE LET part == Head(parts)
       IN IF current.t = "object"
          THEN IF ~Has(h, current.n, part) THEN [err |-> "PATCH_ERROR", v |-> JSONNull]
               ELSE walk(h, Get(h, current.n, part), Tail(parts))
          ELSE IF current.t = "array"
          THEN LET pi == gojson_parseArrayIndex(part, Size(h, current.n))
               IN IF pi.err # "" THEN [err |-> "PATCH_ERROR", v |-> JSONNull]
                  ELSE IF pi.index < 0 \/ pi.index >= Size(h, current.n)
                  THEN [err |-> "PATCH_ERROR", v |-> JSONNull]
                  ELSE walk(h, ArrGet(h, current.n, pi.index), Tail(parts))
          ELSE [err |-> "PATCH_ERROR", v |-> JSONNull]

getValueAtPath(h, o, path) == walk(h, Ref("object", o), path)

\* findParent walks all parts but the last and returns that last part
findParent(h, o, path) ==
  LET found(w) == [err |-> w.err, parent |-> w.v, lastPart |-> path[Len(path)]]
  IN IF Len(path) = 0 THEN [err |-> "PATCH_ERROR", parent |-> JSONNull, lastPart |-> <<>>]
     ELSE found(walk(h, Ref("object", o), SubSeq(path, 1, Len(path) - 1)))

\* for _, key := range o.Keys() { o.Remove(key) }: the range reads the
\* slice taken at loop entry (backing, of length n) while Remove shifts the
\* live part of that same backing array to the left
RECURSIVE clearKeys(_, _, _)
clearKeys(node, backing, i) ==
  IF i > Len(backing) THEN node
  ELSE LET key == backing[i]
           live == Len(node.keys)
           j == CHOOSE x \in 1..live : backing[x] = key /\ \A y \in 1..(x-1) : backing[y] # key
       IN IF key \notin DOMAIN node.props THEN clearKeys(node, backing, i + 1)
          ELSE clearKeys(
                 [node EXCEPT
                    !.keys = SubSeq(backing, 1, j - 1) \o SubSeq(backing, j + 1, live),
                    !.props = [k \in (DOMAIN node.props) \ {key} |-> node.props[k]]],
                 SubSeq(backing, 1, j - 1) \o SubSeq(backing, j + 1, live)
                   \o SubSeq(backing, live, Len(backing)),
                 i + 1)

RECURSIVE putAll(_, _, _, _)
putAll(h, o, src, keys) ==
  IF keys = <<>> THEN h
  ELSE putAll(Put(h, o, Head(keys), Get(h, src, Head(keys))), o, src, Tail(keys))

JSONObject_applyAddOperation(h0, o, op, path, rev) ==
  LET hobbies == <<"h", "o", "b", "b", "i", "e", "s">>
      setAt(h, jsonValue, parent, pi) ==
        IF pi.err # "" THEN Error(h)
        ELSE IF pi.index = Size(h, parent.n) THEN Done(Add(h, parent.n, jsonValue))
        ELSE Done(ArrSet(h, parent.n, pi.index, jsonValue))
      into(h, jsonValue, fp) ==
        IF fp.err # "" THEN Error(h)
        ELSE IF fp.parent.t = "object" THEN Done(Put(h, fp.parent.n, fp.lastPart, jsonValue))
        ELSE IF fp.parent.t = "array"
        THEN setAt(h, jsonValue, fp.parent,
                   gojson_parseArrayIndex(fp.lastPart, Size(h, fp.parent.n)))
        ELSE Error(h)
      refill(cleared, src) == Done(putAll(cleared, o, src, Keys(cleared, src)))
      add(h, jsonValue) ==
        IF Len(path) = 0
        THEN IF jsonValue.t # "object" THEN Error(h)
             ELSE refill([h EXCEPT ![o] = clearKeys(h[o], h[o].keys, 1)], jsonValue.n)
        ELSE IF Len(path) = 1
        THEN IF path[1] = <<"-">> /\ Has(h, o, hobbies) /\ Get(h, o, hobbies).t = "array"
             THEN Done(Add(h, Get(h, o, hobbies).n, jsonValue))
             ELSE Done(Put(h, o, path[1], jsonValue))
        ELSE IF \E i \in 1..(Len(path) - 1) :
                  walk(h, Ref("object", o), SubSeq(path, 1, i)).err # ""
        THEN Error(h)
        ELSE into(h, jsonValue, findParent(h, o, SubSeq(path, 1, Len(path) - 1)))
      parsed(cv) == add(cv.h, cv.v)
  IN IF op.value.t = "absent" THEN Error(h0)
     ELSE parsed(convertToJSONValue(h0, op.value, rev))

\* path[:len(path)-1] of an empty path is a slice out of range
JSONObject_applyRemoveOperation(h, o, op, path) ==
  LET removeAt(parent, pi) ==
        IF pi.err # "" THEN Error(h)
        ELSE IF pi.index < 0 \/ pi.index >= Size(h, parent.n) THEN Error(h)
        ELSE Done(ArrRemove(h, parent.n, pi.index))
      from(fp) ==
        IF fp.err # "" THEN Error(h)
        ELSE IF fp.parent.t = "object"
        THEN IF ~Has(h, fp.parent.n, fp.lastPart) THEN Error(h)
             ELSE Done(Remove(h, fp.parent.n, fp.lastPart))
        ELSE IF fp.parent.t = "array"
        THEN removeAt(fp.parent, gojson_parseArrayIndex(fp.lastPart, Size(h, fp.parent.n)))
        ELSE Error(h)
  IN IF Len(path) = 1
     THEN IF ~Has(h, o, path[1]) THEN Error(h) ELSE Done(Remove(h, o, path[1]))
     ELSE IF Len(path) = 0 THEN [h |-> h, err |-> "PANIC"]
     ELSE from(findParent(h, o, SubSeq(path, 1, Len(path) - 1)))

JSONObject_applyReplaceOperation(h, o, op, path, rev) ==
  LET readd(rm) ==
        IF rm.err # "" THEN rm
        ELSE JSONObject_applyAddOperation(rm.h, o, op, path, rev)
  IN readd(JSONObject_applyRemoveOperation(h, o, op, path))

JSONObject_applyMoveOperation(h, o, op, path, from, rev) ==
  LET removeSource(ad) ==
        IF ad.err # "" THEN ad
        ELSE JSONObject_applyRemoveOperation(
               ad.h, o, PatchOperation("remove", op.from, NoValue, <<>>), from)
      move(src) ==
        IF src.err # "" THEN Error(h)
        ELSE removeSource(JSONObject_applyAddOperation(
               h, o, [op EXCEPT !.op = "add", !.value = ValueToInterface(h, src.v)],
               path, rev))
  IN move(getValueAtPath(h, o, from))

JSONObject_applyCopyOperation(h, o, op, path, from, rev) ==
  LET copy(src) ==
        IF src.err # "" THEN Error(h)
        ELSE JSONObject_applyAddOperation(
               h, o, [op EXCEPT !.value = ValueToInterface(h, src.v)], path, rev)
  IN copy(getValueAtPath(h, o, from))

compareJSONValues(h, a, b) == compareValues(h, a, b)

JSONObject_applyTestOperation(h, o, op, path, rev) ==
  LET compare(cur, cv) ==
        IF cur.err # "" THEN Error(h)
        ELSE IF op.value.t = "absent" THEN Error(h)
        ELSE IF ~compareJSONValues(cv.h, cur.v, cv.v) THEN Error(h)
        ELSE Done(h)
  IN compare(getValueAtPath(h, o, path), convertToJSONValue(h, op.value, rev))

JSONObject_applyOperation(h, o, op, rev) ==
  LET path == parsePath(op.path)
  IN IF Len(path) = 0 THEN Error(h)
     ELSE CASE op.op = "add" -> JSONObject_applyAddOperation(h, o, op, path, rev)
            [] op.op = "remove" -> JSONObject_applyRemoveOperation(h, o, op, path)
            [] op.op = "replace" -> JSONObject_applyReplaceOperation(h, o, op, path, rev)
            [] op.op = "move" ->
                 JSONObject_applyMoveOperation(h, o, op, path, parsePath(op.from), rev)
            [] op.op = "copy" ->
                 JSONObject_applyCopyOperation(h, o, op, path, parsePath(op.from), rev)
            [] op.op = "test" -> JSONObject_applyTestOperation(h, o, op, path, rev)
            [] OTHER -> Error(h)

(***************************************************************************)
(* Documents, pointers and patches of the model                            *)
(***************************************************************************)
ka == <<"a">>
kb == <<"b">>
kc == <<"c">>
kdash == <<"-">>
kstar == <<"*">>
kab == <<"a", "-", "b">>
khobbies == <<"h", "o", "b", "b", "i", "e", "s">>

\* a pointer from its (already escaped) segments: "" for none
RECURSIVE Pointer(_)
Pointer(segs) == IF segs = <<>> THEN <<>> ELSE <<"/">> \o Head(segs) \o Pointer(Tail(segs))

DocAB == LObj(<< <<ka, LNum(1)>>, <<kb, LArr(<<LNum(1), LNum(2), LNum(3)>>)>> >>)
DocNested == LObj(<< <<ka, LObj(<< <<kb, LObj(<< <<kc, LNum(1)>> >>)>>, <<kc, LNum(2)>> >>)>> >>)
DocArray == LArr(<< LArr(<<LNum(1), LNum(2)>>), LObj(<< <<ka, LNum(1)>> >>) >>)
DocHobbies == LObj(<< <<khobbies, LArr(<<LNum(1), LNum(2)>>)>>, <<ka, LStr(<<"x">>)>> >>)
DocOddKey == LObj(<< <<kab, LArr(<<LNum(1), LNum(2)>>)>>, <<kb, LNull>> >>)
DocFlat == LObj(<< <<kb, LNum(2)>>, <<ka, LNum(1)>> >>)

Docs == {DocAB, DocNested, DocArray, DocHobbies, DocOddKey, DocFlat}

\* the object documents a diff is taken between
DiffDocs ==
  {DocAB, DocFlat, DocNested,
   LObj(<< <<ka, LNum(2)>>, <<kb, LNum(2)>> >>),
   LObj(<< <<ka, LNum(1)>> >>),
   LObj(<< <<ka, LNum(1)>>, <<kb, LArr(<<LNum(1), LNum(3)>>)>> >>),
   LObj(<< <<ka, LNum(1)>>, <<kb, LArr(<<LNum(1), LNum(2), LNum(3), LNum(4)>>)>> >>),
   LObj(<< <<ka, LObj(<< <<kb, LObj(<< <<kc, LNum(3)>> >>)>>, <<kc, LNum(2)>> >>)>> >>),
   LObj(<< <<ka, LStr(<<"x">>)>>, <<kc, LBool(TRUE)>> >>)}

Idx(n) == IntToStr(n)

Pointers ==
  {Pointer(<<>>), <<"/">>,
   Pointer(<<ka>>), Pointer(<<kb>>), Pointer(<<kc>>), Pointer(<<kdash>>),
   Pointer(<<khobbies>>), Pointer(<<kab>>),
   Pointer(<<ka, kb>>), Pointer(<<ka, kc>>), Pointer(<<ka, kb, kc>>),
   Pointer(<<kb, Idx(0)>>), Pointer(<<kb, Idx(1)>>), Pointer(<<kb, Idx(3)>>),
   Pointer(<<kb, Idx(5)>>), Pointer(<<kb, kdash>>),
   Pointer(<<khobbies, Idx(0)>>), Pointer(<<kab, Idx(0)>>),
   Pointer(<<Idx(0)>>), Pointer(<<Idx(1)>>), Pointer(<<Idx(0), Idx(1)>>),
   Pointer(<<Idx(1), ka>>),
   Pointer(<<kc, kb>>), Pointer(<<kstar, kb>>), Pointer(<<kstar>>)}

FromPointers ==
  {Pointer(<<>>), Pointer(<<ka>>), Pointer(<<kb>>), Pointer(<<kc>>),
   Pointer(<<ka, kb>>), Pointer(<<kb, Idx(0)>>), Pointer(<<kb, Idx(1)>>),
   Pointer(<<Idx(0)>>), Pointer(<<Idx(1), ka>>), Pointer(<<khobbies>>),
   Pointer(<<kstar>>)}

Values ==
  {LNum(1), LNum(7), LNull, LArr(<<LNum(1), LNum(2)>>), LObj(<< <<kc, LNum(1)>> >>)}

\* every single operation on the pointers of the model; d is the document
\* patched, whose own text is one of the values
AllOps(d) ==
  {PatchOperation(o, p, v, <<>>) :
     o \in {"add", "replace", "test"}, p \in Pointers, v \in Values \cup {d}}
  \cup {PatchOperation("remove", p, NoValue, <<>>) : p \in Pointers}
  \cup {PatchOperation(o, p, NoValue, f) :
          o \in {"move", "copy"}, p \in Pointers, f \in FromPointers}
  \cup {PatchOperation("merge", Pointer(<<ka>>), LNum(1), <<>>),
        PatchOperation("add", Pointer(<<ka>>), NoValue, <<>>)}

\* the operations longer patches are made of
SeqOps ==
  {PatchOperation("add", Pointer(<<kc>>), LNum(7), <<>>),
   PatchOperation("add", Pointer(<<ka, kc>>), LNum(7), <<>>),
   PatchOperation("add", Pointer(<<kc, kb>>), LNum(7), <<>>),
   PatchOperation("add", Pointer(<<kc, Idx(0)>>), LNum(7), <<>>),
   PatchOperation("add", Pointer(<<kdash>>), LNum(7), <<>>),
   PatchOperation("remove", Pointer(<<ka>>), NoValue, <<>>),
   PatchOperation("remove", Pointer(<<kc>>), NoValue, <<>>),
   PatchOperation("remove", Pointer(<<kb, Idx(0)>>), NoValue, <<>>),
   PatchOperation("remove", Pointer(<<kc, Idx(0)>>), NoValue, <<>>),
   PatchOperation("remove", Pointer(<<Idx(0), Idx(1)>>), NoValue, <<>>),
   PatchOperation("replace", Pointer(<<ka>>), LNum(7), <<>>),
   PatchOperation("replace", Pointer(<<kc>>), LArr(<<LNum(1), LNum(2)>>), <<>>),
   PatchOperation("copy", Pointer(<<kc>>), NoValue, Pointer(<<kb>>)),
   PatchOperation("copy", Pointer(<<kc>>), NoValue, Pointer(<<ka>>)),
   PatchOperation("move", Pointer(<<kc>>), NoValue, Pointer(<<ka>>)),
   PatchOperation("test", Pointer(<<ka>>), LNum(1), <<>>)}

Patches(d) ==
  {<<>>} \cup {<<o>> : o \in AllOps(d)}
  \cup UNION {[1..n -> SeqOps] : n \in 2..MaxOps}

(***************************************************************************)
(* The calls                                                               *)
(***************************************************************************)
Nil == [nil |-> TRUE, v |-> JSONNull]
Returned(v) == [nil |-> FALSE, v |-> v]
NoTarget == [on |-> FALSE, v |-> JSONNull]

\* a hand-written patch applied to a document through either entry point
InitPatch ==
  \E d \in Docs, e \in {"ApplyPatch", "Patch"} :
    LET built(b) ==
          /\ (e = "Patch" => d.t = "object")
          /\ heap = b.h
          /\ doc = b.v
          /\ doc0 = ValueToInterface(b.h, b.v)
          /\ ops \in Patches(d)
          /\ entry = e
          /\ target = NoTarget
          /\ diffRecords = <<>>
          /\ patchArray = <<>>
    IN built(Build(<<>>, d))

\* the patch generated from the diff of two documents, applied to the first
InitRoundTrip ==
  \E d \in DiffDocs, d2 \in DiffDocs :
    LET compared(b, b2, ds) ==
          /\ heap = b2.h
          /\ doc = b.v
          /\ doc0 = ValueToInterface(b.h, b.v)
          /\ ops = patchOperations(b2.h, GeneratePatch(ds))
          /\ entry = "ApplyPatch"
          /\ target = [on |-> TRUE, v |-> b2.v]
          /\ diffRecords = ds
          /\ patchArray = GeneratePatch(ds)
        built(b, b2) == compared(b, b2, DiffJSON(b2.h, b.v, b2.v, DefaultDiffOptions))
        first(b) == built(b, Build(b.h, d2))
    IN first(Build(<<>>, d))

Init ==
  /\ (InitPatch \/ InitRoundTrip)
  /\ pc = "start"
  /\ result = JSONNull
  /\ idx = 1
  /\ err = ""
  /\ ret = Nil
  /\ log = <<>>
  /\ pathParts = <<>>
  /\ diffOptions = DefaultDiffOptions
  /\ diffBack = <<>>

\* the loop body of both entry points: what the call does with the outcome
\* r of one operation (error code r.err, document r.v)
\* loopBody going on with the next operation after an error
loopBodyKeepsGoing(r, i) ==
  IF r.err = "PANIC" THEN [pc |-> "panic", result |-> JSONNull, idx |-> i, err |-> "", ret |-> Nil]
  ELSE [pc |-> "loop", result |-> r.v, idx |-> i + 1, err |-> r.err, ret |-> Nil]

loopBody(r, i) ==
  IF r.err = "PANIC" THEN [pc |-> "panic", result |-> JSONNull, idx |-> i, err |-> "", ret |-> Nil]
  ELSE IF r.err # "" THEN [pc |-> "done", result |-> JSONNull, idx |-> i, err |-> r.err, ret |-> Nil]
  ELSE [pc |-> "loop", result |-> r.v, idx |-> i + 1, err |-> "", ret |-> Nil]

Continue(n) ==
  /\ pc' = n.pc
  /\ result' = n.result
  /\ idx' = n.idx
  /\ err' = n.err
  /\ ret' = n.ret

\* patch.ApplyPatch: the copy of the root
ApplyPatchBegin ==
  /\ pc = "start" /\ entry = "ApplyPatch"
  /\ LET copied(c) == heap' = c.h /\ result' = c.v
     IN copied(cloneRoot(heap, doc))
  /\ pc' = "loop"
  /\ UNCHANGED <<doc, doc0, ops, entry, idx, err, ret, log, target, diffRecords,
               diffOptions, diffBack, patchArray, pathParts>>

\* patch.ApplyPatch: one iteration of the loop over the operations
ApplyPatchStep ==
  /\ pc = "loop" /\ entry = "ApplyPatch" /\ idx <= Len(ops)
  /\ \E rev \in BOOLEAN :
       LET applied(r) == heap' = r.h /\ Continue(loopBody(r, idx))
       IN applied(applyOperation(heap, result, ops[idx], rev))
  /\ log' = Append(log, idx)
  /\ UNCHANGED <<doc, doc0, ops, entry, target, diffRecords,
               diffOptions, diffBack, patchArray, pathParts>>

\* patch.ApplyPatch: return result, nil
ApplyPatchReturn ==
  /\ pc = "loop" /\ entry = "ApplyPatch" /\ idx > Len(ops)
  /\ pc' = "done"
  /\ ret' = Returned(result)
  /\ UNCHANGED <<heap, doc, doc0, ops, entry, result, idx, err, log, target, diffRecords,
               diffOptions, diffBack, patchArray, pathParts>>

\* JSONObject.Patch: result := o.Clone()
PatchBegin ==
  /\ pc = "start" /\ entry = "Patch"
  /\ LET cloned(c) == heap' = c.h /\ result' = c.v
     IN cloned(Clone(heap, doc.n))
  /\ pc' = "loop"
  /\ UNCHANGED <<doc, doc0, ops, entry, idx, err, ret, log, target, diffRecords,
               diffOptions, diffBack, patchArray, pathParts>>

\* JSONObject.Patch: one iteration of the loop over the operations
PatchStep ==
  /\ pc = "loop" /\ entry = "Patch" /\ idx <= Len(ops)
  /\ \E rev \in BOOLEAN :
       LET applied(r) == heap' = r.h /\ Continue(loopBody([err |-> r.err, v |-> result], idx))
       IN applied(JSONObject_applyOperation(heap, result.n, ops[idx], rev))
  /\ log' = Append(log, idx)
  /\ UNCHANGED <<doc, doc0, ops, entry, target, diffRecords,
               diffOptions, diffBack, patchArray, pathParts>>

\* JSONObject.Patch: return result, nil
PatchReturn ==
  /\ pc = "loop" /\ entry = "Patch" /\ idx > Len(ops)
  /\ pc' = "done"
  /\ ret' = Returned(result)
  /\ UNCHANGED <<heap, doc, doc0, ops, entry, result, idx, err, log, target, diffRecords,
               diffOptions, diffBack, patchArray, pathParts>>

Next ==
  \/ ApplyPatchBegin
  \/ ApplyPatchStep
  \/ ApplyPatchReturn
  \/ PatchBegin
  \/ PatchStep
  \/ PatchReturn

Spec == Init /\ [][Next]_vars

(***************************************************************************)
(* The calls of package diff: DiffJSON on two values, both ways round, and *)
(* GeneratePatch on the records                                            *)
(***************************************************************************)
kx == <<"x">>

\* objects with scalar members
FlatOne == LObj(<< <<ka, LNum(1)>>, <<kb, LStr(kx)>>, <<kc, LBool(TRUE)>> >>)
FlatTwo == LObj(<< <<ka, LNum(2)>>, <<kb, LStr(kx)>>, <<kab, LNull>> >>)

\* a nested value with a null leaf
NestedOne ==
  LObj(<< <<ka, LArr(<<LNum(1), LNull, LObj(<< <<kc, LStr(kx)>> >>)>>)>>, <<kb, LNull>> >>)

\* the values compared: scalars, objects with scalar members (one of them
\* built in another key order, one with a null member and a string with a
\* blank, one empty), nested objects and arrays
DiffValues ==
  {LNull, LNum(1), LStr(kx),
   FlatOne, FlatTwo,
   LObj(<< <<kb, LStr(<<"X">>)>>, <<kc, LBool(FALSE)>>, <<ka, LNum(1)>> >>),
   LObj(<< <<ka, LNull>>, <<kb, LNum(1)>>, <<kab, LStr(<<"x", " ">>)>> >>),
   LObj(<<>>),
   NestedOne,
   LObj(<< <<ka, LArr(<<LNum(1), LNum(2)>>)>>,
           <<kb, LObj(<< <<kc, LStr(<<"x", " ", "y">>)>> >>)>> >>),
   DocArray,
   LArr(<< LArr(<<LNum(1)>>), LObj(<< <<ka, LNum(1)>>, <<kab, LBool(TRUE)>> >>), LNull >>),
   LObj(<< <<<<"a", ".", "b">>, LNum(1)>>, <<ka, LObj(<< <<kb, LNum(2)>> >>)>> >>),
   LObj(<< <<ka, LObj(<< <<kb, LArr(<<LNum(1)>>)>> >>)>>, <<<<"a", ".", "b">>, LNum(2)>> >>)}

\* largest MaxDepth option
MaxDepthOption == 2

DiffOptionSets ==
  [IgnoreCase : BOOLEAN, IgnoreWhitespace : BOOLEAN, IgnoreOrder : BOOLEAN,
   IncludeSame : BOOLEAN, MaxDepth : 0..MaxDepthOption]

\* longest list of records handed to GeneratePatch directly
MaxRecords == 2

\* records a caller can build, one of each type
RecordPool ==
  {Diff("added", <<"$", ".", "a">>, JSONNull, JSONNumber(1)),
   Diff("added", <<"$", ".", "b", "[", "0", "]">>, JSONNull, JSONNull),
   Diff("removed", <<"$", ".", "a">>, JSONNumber(1), JSONNull),
   Diff("modified", <<"$", ".", "a">>, JSONNumber(1), JSONString(kx)),
   Diff("same", <<"$", ".", "a">>, JSONNumber(1), JSONNumber(1)),
   Diff("type_changed", <<"$">>, JSONNumber(1), JSONBool(TRUE)),
   Diff("moved", <<"$", "[", "1", "]">>, JSONNumber(1), JSONNumber(1))}

\* the variables the diff calls leave alone
NoPatchCall ==
  /\ ops = <<>>
  /\ result = JSONNull
  /\ idx = 1
  /\ err = ""
  /\ ret = Nil
  /\ log = <<>>

\* two values to compare under some options; the second one may be the
\* first one itself
InitDiff ==
  \E a \in DiffValues, b \in DiffValues, o \in DiffOptionSets, itself \in BOOLEAN :
    LET built(ba, bb) ==
          /\ (itself => a = b)
          /\ heap = bb.h
          /\ doc = ba.v
          /\ doc0 = ValueToInterface(ba.h, ba.v)
          /\ target = [on |-> TRUE, v |-> IF itself THEN ba.v ELSE bb.v]
          /\ diffOptions = o
          /\ diffRecords = <<>>
          /\ entry = "DiffJSON"
          /\ pc = "start"
        first(ba) == built(ba, Build(ba.h, b))
    IN first(Build(<<>>, a))

\* a list of records built by the caller
InitRecords ==
  /\ \E n \in 0..MaxRecords : diffRecords \in [1..n -> RecordPool]
  /\ heap = <<>>
  /\ doc = JSONNull
  /\ doc0 = LNull
  /\ target = NoTarget
  /\ diffOptions = DefaultDiffOptions
  /\ entry = "GeneratePatch"
  /\ pc = "records"

InitDiffCalls ==
  /\ (InitDiff \/ InitRecords)
  /\ NoPatchCall
  /\ diffBack = <<>>
  /\ patchArray = <<>>
  /\ pathParts = <<>>

\* diffs, _ := DiffJSON(oldValue, newValue, options)
DiffJSONCall ==
  /\ pc = "start" /\ entry = "DiffJSON"
  /\ diffRecords' = DiffJSON(heap, doc, target.v, diffOptions)
  /\ pc' = "diffed"
  /\ UNCHANGED <<heap, doc, doc0, ops, entry, result, idx, err, ret, log, target,
                 diffOptions, diffBack, patchArray, pathParts>>

\* DiffJSON(newValue, oldValue, options): the same two values the other way
DiffJSONBackCall ==
  /\ pc = "diffed" /\ entry = "DiffJSON"
  /\ diffBack' = DiffJSON(heap, target.v, doc, diffOptions)
  /\ pc' = "compared"
  /\ UNCHANGED <<heap, doc, doc0, ops, entry, result, idx, err, ret, log, target,
                 diffRecords, diffOptions, patchArray, pathParts>>

\* patchArray := GeneratePatch(diffs)
GeneratePatchCall ==
  /\ pc \in {"compared", "records"}
  /\ patchArray' = GeneratePatch(diffRecords)
  /\ pc' = "generated"
  /\ UNCHANGED <<heap, doc, doc0, ops, entry, result, idx, err, ret, log, target,
                 diffRecords, diffOptions, diffBack, pathParts>>

NextDiff ==
  \/ DiffJSONCall
  \/ DiffJSONBackCall
  \/ GeneratePatchCall

SpecDiff == InitDiffCalls /\ [][NextDiff]_vars

(***************************************************************************)
(* Calls of parsePath alone                                                *)
(***************************************************************************)
\* longest pointer handed to parsePath
MaxPathLen == 4

PathChars == {"/", "~", "0", "1", "a"}

PathStrings == UNION {[1..n -> PathChars] : n \in 0..MaxPathLen}

\* applyOperation is handed an operation with any path string
InitParse ==
  /\ \E p \in PathStrings, o \in {"add", "remove"} :
       ops = <<PatchOperation(o, p, NoValue, <<>>)>>
  /\ heap = <<>> /\ doc = JSONNull /\ doc0 = LNull
  /\ entry = "parsePath" /\ pc = "start"
  /\ result = JSONNull /\ idx = 1 /\ err = "" /\ ret = Nil /\ log = <<>>
  /\ target = NoTarget /\ diffRecords = <<>> /\ diffOptions = DefaultDiffOptions
  /\ diffBack = <<>> /\ patchArray = <<>> /\ pathParts = <<>>

\* path := parsePath(op.Path)
parsePathCall ==
  /\ pc = "start" /\ entry = "parsePath"
  /\ pathParts' = parsePath(ops[1].path)
  /\ pc' = "parsed"
  /\ UNCHANGED <<heap, doc, doc0, ops, entry, result, idx, err, ret, log, target,
                 diffRecords, diffOptions, diffBack, patchArray>>

NextParse == parsePathCall

SpecParse == InitParse /\ [][NextParse]_vars

(***************************************************************************)
(* Reference notions the properties are stated with: the pointer grammar   *)
(* and the addressed value of a document text, independent of the code     *)
(***************************************************************************)
\* the reference tokens of a pointer
PointerTokens(p) ==
  IF p = <<>> \/ p = <<"/">> THEN <<>>
  ELSE LET parts0 == Split(p, "/")
           parts  == IF parts0[1] = <<>> THEN Tail(parts0) ELSE parts0
       IN [i \in 1..Len(parts) |->
             ReplaceAll(ReplaceAll(parts[i], <<"~", "1">>, <<"/">>), <<"~", "0">>, <<"~">>)]

\* a token that is an array index: 0 or a number without leading zero
IndexToken(tok) ==
  \/ tok = <<"0">>
  \/ /\ tok # <<>>
     /\ tok[1] # "0"
     /\ \A i \in 1..Len(tok) : tok[i] \in {"0", "1", "2", "3", "4", "5", "6", "7", "8", "9"}

Absent == [ok |-> FALSE, v |-> LNull]

\* the value a token list addresses in a text
RECURSIVE LitAt(_, _)
LitAt(lit, toks) ==
  IF toks = <<>> THEN [ok |-> TRUE, v |-> lit]
  ELSE IF lit.t = "object"
  THEN IF \E i \in 1..Len(lit.kids) : lit.kids[i].k = Head(toks)
       THEN LitAt(lit.kids[CHOOSE i \in 1..Len(lit.kids) : lit.kids[i].k = Head(toks)].v,
                  Tail(toks))
       ELSE Absent
  ELSE IF lit.t = "array"
  THEN IF IndexToken(Head(toks)) /\ DigitsToInt(Head(toks)) < Len(lit.kids)
       THEN LitAt(lit.kids[DigitsToInt(Head(toks)) + 1].v, Tail(toks))
       ELSE Absent
  ELSE Absent

\* a text with the members of every object sorted: two texts are deep-equal
\* iff their canonical forms are equal
Canon(lit) == MapOrder(lit, FALSE)

\* the texts of the caller's document now and of the returned document
DocNow == ValueToInterface(heap, doc)
RetText == ValueToInterface(heap, ret.v)

Finished == pc \in {"done", "panic"}
Succeeded == pc = "done" /\ err = "" /\ ~ret.nil

(***************************************************************************)
(* Properties                                                              *)
(***************************************************************************)
OnlyLeafChanges ==
  \A i \in 1..Len(diffRecords) : diffRecords[i].Type \in {"added", "removed", "modified"}

\* C1: when the diff of D and D2 holds only added, removed and modified
\* records, applying the generated patch to D succeeds and returns a
\* document deep-equal to D2
C1_RoundTrip ==
  (target.on /\ OnlyLeafChanges /\ Finished)
    => (Succeeded /\ DeepEqual(heap, ret.v, heap, target.v))

\* C2: at every point of a call of ApplyPatch, and after it, the caller's
\* tree is deep-equal to what it was before the call
C2_CallerTreeUnchanged ==
  (entry = "ApplyPatch" /\ ~target.on) => DocNow = doc0

\* C3: at every point of a call of JSONObject.Patch, and after it, the
\* receiver is deep-equal to what it was before the call
C3_ReceiverUnchanged ==
  entry = "Patch" => DocNow = doc0

\* C4: once an operation has returned an error the call is over, it has
\* returned the error and no document, and the operations attempted are
\* exactly those up to the failing one; a call that returns a document
\* has attempted every operation, in list order
C4_FirstFailureAborts ==
  /\ log = [i \in 1..Len(log) |-> i]
  /\ Len(log) <= Len(ops)
  /\ err # "" => (pc = "done" /\ ret.nil /\ Len(log) = idx /\ idx <= Len(ops))
  /\ (pc = "done" /\ err = "") => (~ret.nil /\ Len(log) = Len(ops))
  /\ ~ret.nil => (pc = "done" /\ err = "")

\* a first operation failed while another one was still to come
C4_Witness ==
  pc = "done" /\ err # "" /\ ret.nil /\ idx = 1 /\ Len(ops) = 2 /\ log = <<1>>

IsSingle(opname) ==
  entry = "ApplyPatch" /\ ~target.on /\ Len(ops) = 1 /\ ops[1].op = opname

\* C5: a patch of one test operation succeeds iff its pointer addresses a
\* value of the document that deep-equals the operation's value, and then
\* returns a document deep-equal to the document
C5_TestOperation ==
  (IsSingle("test") /\ ops[1].value.t # "absent" /\ Finished) =>
     LET at == LitAt(doc0, PointerTokens(ops[1].path))
     IN /\ Succeeded <=> (at.ok /\ Canon(at.v) = Canon(ops[1].value))
        /\ Succeeded => RetText = doc0

\* the value a destination addresses: the append marker addresses the last
\* element of the array it is applied to
LitAtDest(lit, toks) ==
  IF toks # <<>> /\ toks[Len(toks)] = <<"-">>
  THEN LET parent == LitAt(lit, SubSeq(toks, 1, Len(toks) - 1))
       IN IF parent.ok /\ parent.v.t = "array" /\ parent.v.kids # <<>>
          THEN [ok |-> TRUE, v |-> parent.v.kids[Len(parent.v.kids)].v]
          ELSE LitAt(lit, toks)
  ELSE LitAt(lit, toks)

\* the outcome of ApplyPatch for a patch of the one operation op on a fresh
\* tree of the text d
ApplyOne(d, op) ==
  LET outcome(r) ==
        [err |-> r.err,
         text |-> IF r.err = "" THEN ValueToInterface(r.h, r.v) ELSE LNull]
      applied(c) == outcome(applyOperation(c.h, c.v, op, FALSE))
      built(b) == applied(cloneRoot(b.h, b.v))
  IN built(Build(<<>>, d))

IsPrefix(a, b) == Len(a) <= Len(b) /\ SubSeq(b, 1, Len(a)) = a
ParentTokens(toks) == SubSeq(toks, 1, Len(toks) - 1)
LastToken(toks) == toks[Len(toks)]

\* the token list addresses a member of an object of the text
IsMemberOfObject(lit, toks) ==
  /\ toks # <<>>
  /\ LitAt(lit, ParentTokens(toks)).ok
  /\ LitAt(lit, ParentTokens(toks)).v.t = "object"

\* two locations of a text none of which lies in the other, and such that
\* an insertion at T displaces nothing on the way to F
Disjoint(lit, F, T) ==
  /\ ~IsPrefix(F, T)
  /\ ~IsPrefix(T, F)
  /\ T # <<>>
  /\ ~(/\ IsPrefix(ParentTokens(T), F)
       /\ LitAt(lit, ParentTokens(T)).ok
       /\ LitAt(lit, ParentTokens(T)).v.t = "array")

\* C6: a patch of one move operation that succeeds leaves at its destination
\* a value deep-equal to the one the copy with the same from and path leaves
\* there on the same document, and, from being a member of an object and
\* not the destination itself, leaves no value at from
C6_MoveVersusCopy ==
  (IsSingle("move") /\ Succeeded) =>
     LET F  == PointerTokens(ops[1].from)
         T  == PointerTokens(ops[1].path)
         cp == ApplyOne(doc0, [ops[1] EXCEPT !.op = "copy"])
         mv == LitAtDest(RetText, T)
         cv == LitAtDest(cp.text, T)
     IN /\ cp.err = "" /\ mv.ok /\ cv.ok /\ Canon(mv.v) = Canon(cv.v)
        /\ (F # T /\ IsMemberOfObject(doc0, F)) => ~LitAt(RetText, F).ok

\* C7: in a patch whose first operation is a copy between two disjoint
\* locations, once the call has succeeded the value at from is the one the
\* document had there; when the copy is the only operation the value at
\* path deep-equals it, and when a second operation changed something
\* inside path the value at from is still the same
C7_CopyKeepsSource ==
  (entry = "ApplyPatch" /\ ~target.on /\ Len(ops) >= 1 /\ ops[1].op = "copy"
     /\ Disjoint(doc0, PointerTokens(ops[1].from), PointerTokens(ops[1].path))
     /\ Succeeded
     /\ \A i \in 2..Len(ops) :
          /\ ops[i].op \in {"add", "remove", "replace"}
          /\ IsPrefix(PointerTokens(ops[1].path), PointerTokens(ops[i].path))
          /\ PointerTokens(ops[1].path) # PointerTokens(ops[i].path)) =>
     LET F   == PointerTokens(ops[1].from)
         T   == PointerTokens(ops[1].path)
         src == LitAt(doc0, F)
         now == LitAt(RetText, F)
         dst == LitAtDest(RetText, T)
     IN /\ src.ok /\ now.ok /\ now.v = src.v
        /\ Len(ops) = 1 => (dst.ok /\ dst.v = src.v)

\* the members of an object text with the key set to a value, without the key
ObjDel(lit, key) ==
  [lit EXCEPT !.kids = SelectSeq(lit.kids, LAMBDA kid : kid.k # key)]
ObjSet(lit, key, v) ==
  [lit EXCEPT !.kids = SortKids(Append(ObjDel(lit, key).kids, [k |-> key, v |-> Canon(v)]))]
HasKey(lit, key) == \E i \in 1..Len(lit.kids) : lit.kids[i].k = key

\* what a list of add, remove and replace operations on single keys makes of
\* an object text: add sets the key, remove and replace need the key
RECURSIVE TopLevelEdits(_, _)
TopLevelEdits(lit, operations) ==
  IF operations = <<>> THEN [ok |-> TRUE, text |-> lit]
  ELSE LET op  == Head(operations)
           key == PointerTokens(op.path)[1]
       IN IF op.op = "add" /\ op.value.t # "absent"
          THEN TopLevelEdits(ObjSet(lit, key, op.value), Tail(operations))
          ELSE IF op.op = "replace" /\ op.value.t # "absent" /\ HasKey(lit, key)
          THEN TopLevelEdits(ObjSet(lit, key, op.value), Tail(operations))
          ELSE IF op.op = "remove" /\ HasKey(lit, key)
          THEN TopLevelEdits(ObjDel(lit, key), Tail(operations))
          ELSE [ok |-> FALSE, text |-> LNull]

\* C8: JSONObject.Patch with add, remove and replace operations on paths of
\* one segment returns the object the operations make in list order, and
\* an error exactly when one of them is a remove or replace of a missing key
C8_TopLevelEdits ==
  (entry = "Patch" /\ ops # <<>> /\ Finished
     /\ \A i \in 1..Len(ops) :
          /\ ops[i].op \in {"add", "remove", "replace"}
          /\ (ops[i].op = "remove" \/ ops[i].value.t # "absent")
          /\ Len(PointerTokens(ops[i].path)) = 1) =>
     LET ref == TopLevelEdits(doc0, ops)
     IN IF ref.ok THEN Succeeded /\ RetText = ref.text
        ELSE pc = "done" /\ err # "" /\ ret.nil

\* C9: a patch of one add operation whose path has a non-final segment that
\* does not exist in the document ends with the error PATH_NOT_FOUND and
\* without a document
C9_NoIntermediateContainers ==
  (IsSingle("add") /\ ops[1].value.t # "absent" /\ Finished
     /\ \E j \in 1..(Len(PointerTokens(ops[1].path)) - 1) :
          ~LitAt(doc0, SubSeq(PointerTokens(ops[1].path), 1, j)).ok) =>
     (pc = "done" /\ err = "PATH_NOT_FOUND" /\ ret.nil)

\* a text with the value at a token list replaced
RECURSIVE LitPut(_, _, _)
LitPut(lit, toks, v) ==
  IF toks = <<>> THEN v
  ELSE LET i == IF lit.t = "object"
                THEN CHOOSE j \in 1..Len(lit.kids) : lit.kids[j].k = Head(toks)
                ELSE DigitsToInt(Head(toks)) + 1
       IN [lit EXCEPT !.kids[i].v = LitPut(@, Tail(toks), v)]

Without(seq, i) == SubSeq(seq, 1, i - 1) \o SubSeq(seq, i + 1, Len(seq))

\* the pointer addresses element i of an array a of the text d, and the
\* parent lookup of the operation reaches a
ReachesArrayElement(d, pointer) ==
  LET T   == PointerTokens(pointer)
      par == LitAt(d, ParentTokens(T))
      b   == Build(<<>>, d)
      sp  == splitPath(normalizePath(pointer))
      q   == queryFirst(b.h, b.v, sp.parent)
  IN /\ T # <<>>
     /\ par.ok /\ par.v.t = "array"
     /\ IndexToken(LastToken(T)) /\ DigitsToInt(LastToken(T)) < Len(par.v.kids)
     /\ ~sp.panic /\ q.err = "" /\ ValueToInterface(b.h, q.v) = par.v

\* C10: a patch of one remove operation on element i of an array a that the
\* parent path reaches returns the document with a replaced by a without
\* its element i: one element less, the elements before i in place, those
\* after i one place to the left, everything outside a as it was
C10_ArrayElementRemoval ==
  (IsSingle("remove") /\ Finished /\ ReachesArrayElement(doc0, ops[1].path)) =>
     LET T == PointerTokens(ops[1].path)
         a == LitAt(doc0, ParentTokens(T)).v
         i == DigitsToInt(LastToken(T))
     IN /\ Succeeded
        /\ RetText = LitPut(doc0, ParentTokens(T), [a EXCEPT !.kids = Without(@, i + 1)])

\* an element that is not the last one of its array has been removed
C10_Witness ==
  /\ IsSingle("remove") /\ Succeeded /\ ReachesArrayElement(doc0, ops[1].path)
  /\ LET T == PointerTokens(ops[1].path)
     IN DigitsToInt(LastToken(T)) + 1 < Len(LitAt(doc0, ParentTokens(T)).v.kids)

IsSinglePatch(opname) ==
  entry = "Patch" /\ Len(ops) = 1 /\ ops[1].op = opname

\* the pointer is /k/i for an array member k of the object text d and an
\* index i of that array
IsElementOfArrayMember(d, pointer) ==
  LET T == PointerTokens(pointer)
  IN /\ Len(T) = 2
     /\ d.t = "object"
     /\ LitAt(d, <<T[1]>>).ok
     /\ LitAt(d, <<T[1]>>).v.t = "array"
     /\ IndexToken(T[2])
     /\ DigitsToInt(T[2]) < Len(LitAt(d, <<T[1]>>).v.kids)

\* C11: JSONObject.Patch with one remove at /k/i, k an array member of the
\* receiver with more than i elements, succeeds and returns the object in
\* which k is the array without its element i: the other elements in order,
\* member k kept, the other members as they were
C11_PatchArrayElementRemoval ==
  (IsSinglePatch("remove") /\ Finished /\ IsElementOfArrayMember(doc0, ops[1].path)) =>
     LET T == PointerTokens(ops[1].path)
         a == LitAt(doc0, <<T[1]>>).v
         i == DigitsToInt(T[2])
     IN /\ Succeeded
        /\ RetText = LitPut(doc0, <<T[1]>>, [a EXCEPT !.kids = Without(@, i + 1)])

InsertInto(seq, i, x) == SubSeq(seq, 1, i - 1) \o <<x>> \o SubSeq(seq, i, Len(seq))

\* the position a final token stands for in an array of n elements
SlotOf(tok, n) == IF tok = <<"-">> THEN n ELSE DigitsToInt(tok)

\* the pointer addresses a position 0..n of an array a of n elements of the
\* text d, by its index or by the append marker, and the parent lookup of the
\* operation reaches a
ReachesArraySlot(d, pointer) ==
  LET T   == PointerTokens(pointer)
      par == LitAt(d, ParentTokens(T))
      b   == Build(<<>>, d)
      sp  == splitPath(normalizePath(pointer))
      q   == queryFirst(b.h, b.v, sp.parent)
  IN /\ T # <<>>
     /\ par.ok /\ par.v.t = "array"
     /\ \/ LastToken(T) = <<"-">>
        \/ IndexToken(LastToken(T)) /\ DigitsToInt(LastToken(T)) <= Len(par.v.kids)
     /\ ~sp.panic /\ q.err = "" /\ ValueToInterface(b.h, q.v) = par.v

\* C12: a patch of one add operation on position i of an array a of n
\* elements that the parent path reaches, 0 <= i <= n or the append marker
\* for i = n, returns the document with a replaced by the array of n+1
\* elements that has the value at position i, the elements before i in
\* place and those from i on one place to the right
C12_ArrayInsertion ==
  (IsSingle("add") /\ ops[1].value.t # "absent" /\ Finished
     /\ ReachesArraySlot(doc0, ops[1].path)) =>
     LET T == PointerTokens(ops[1].path)
         a == LitAt(doc0, ParentTokens(T)).v
         i == SlotOf(LastToken(T), Len(a.kids))
         x == [k |-> <<>>, v |-> Canon(ops[1].value)]
     IN /\ Succeeded
        /\ RetText = LitPut(doc0, ParentTokens(T), [a EXCEPT !.kids = InsertInto(@, i + 1, x)])

\* a value has been inserted before the last element of an array, and
\* after its first
C12_Witness ==
  /\ IsSingle("add") /\ Succeeded /\ ReachesArraySlot(doc0, ops[1].path)
  /\ LET T == PointerTokens(ops[1].path)
         i == SlotOf(LastToken(T), Len(LitAt(doc0, ParentTokens(T)).v.kids))
     IN i > 0 /\ i < Len(LitAt(doc0, ParentTokens(T)).v.kids)

\* C13: JSONObject.Patch with one add whose path has two or more segments
\* and whose parent is an object of the receiver succeeds and returns the
\* receiver's text with the final segment set to the value in that parent:
\* the other members of the parent, and everything above it, as they were
C13_NestedAdd ==
  (IsSinglePatch("add") /\ ops[1].value.t # "absent" /\ Finished
     /\ Len(PointerTokens(ops[1].path)) >= 2
     /\ IsMemberOfObject(doc0, PointerTokens(ops[1].path))) =>
     LET T == PointerTokens(ops[1].path)
         parent == LitAt(doc0, ParentTokens(T)).v
     IN /\ Succeeded
        /\ RetText = LitPut(doc0, ParentTokens(T), ObjSet(parent, LastToken(T), ops[1].value))

\* C14: JSONObject.Patch with one replace at /k/i, k an array member of the
\* receiver with more than i elements, succeeds and returns the receiver's
\* text with element i of k replaced by the value, everything else as it was
C14_PatchArrayElementReplace ==
  (IsSinglePatch("replace") /\ ops[1].value.t # "absent" /\ Finished
     /\ IsElementOfArrayMember(doc0, ops[1].path)) =>
     /\ Succeeded
     /\ RetText = LitPut(doc0, PointerTokens(ops[1].path), Canon(ops[1].value))

\* C15: a patch of one remove operation whose path is the root pointer, ""
\* or "/", succeeds and returns the Null value
C15_RemoveRoot ==
  (IsSingle("remove") /\ PointerTokens(ops[1].path) = <<>> /\ Finished) =>
     (Succeeded /\ RetText = LNull)

\* C16: JSONObject.Patch with one add whose path is the root pointer, "" or
\* "/", succeeds and returns a document deep-equal to the value when the
\* value is an object, and returns an error otherwise
C16_PatchAddRoot ==
  (IsSinglePatch("add") /\ ops[1].value.t # "absent"
     /\ PointerTokens(ops[1].path) = <<>> /\ Finished) =>
     IF ops[1].value.t = "object"
     THEN Succeeded /\ RetText = Canon(ops[1].value)
     ELSE pc = "done" /\ err # "" /\ ret.nil

\* the text of the second value of a diff
TargetText == ValueToInterface(heap, target.v)

\* C17: the records of DiffJSON on two deep-equal values, or on one value
\* and itself, with IncludeSame off are none, whatever the other options
C17_DiffOfEqualIsEmpty ==
  (entry = "DiffJSON" /\ pc # "start" /\ ~diffOptions.IncludeSame /\ TargetText = doc0)
    => diffRecords = <<>>

\* a value of objects and arrays with null, number and string leaves has
\* been compared with itself to full depth
C17_Witness ==
  /\ entry = "DiffJSON" /\ pc = "diffed"
  /\ ~diffOptions.IncludeSame /\ diffOptions.MaxDepth = 0
  /\ doc0 = Canon(NestedOne) /\ TargetText = doc0
  /\ diffRecords = <<>>

\* the paths of the records of one type
PathsOf(ds, type) == {ds[i].Path : i \in {j \in 1..Len(ds) : ds[j].Type = type}}

\* C18: DiffJSON(A, B) holds an added record at a path exactly when
\* DiffJSON(B, A), under the same options, holds a removed record at it
C18_AntiSymmetric ==
  (entry = "DiffJSON" /\ pc \in {"compared", "generated"})
    => PathsOf(diffRecords, "added") = PathsOf(diffBack, "removed")

\* both diffs are there, with additions at a member and at an array element
C18_Witness ==
  /\ entry = "DiffJSON" /\ pc = "compared"
  /\ \E p \in PathsOf(diffRecords, "added") : HasSuffix(p, <<"]">>)
  /\ \E p \in PathsOf(diffRecords, "added") : ~HasSuffix(p, <<"]">>)
  /\ PathsOf(diffRecords, "added") = PathsOf(diffBack, "removed")

\* an object text all of whose members are scalars
IsFlatObject(lit) ==
  /\ lit.t = "object"
  /\ \A i \in 1..Len(lit.kids) : lit.kids[i].v.t \notin {"array", "object"}

KeysOf(lit) == {lit.kids[i].k : i \in 1..Len(lit.kids)}
Member(lit, key) == LitAt(lit, <<key>>).v
RecordsAt(ds, path) == SelectSeq(ds, LAMBDA d : d.Path = path)

\* C19: for two objects with scalar members and the default options the
\* records are: for each key of either object, at the path $.key, none when
\* both objects hold equal values there and exactly one otherwise, which is
\* modified for two different non-null values of one type, added for a key
\* of the new object only, removed for a key of the old object only; and
\* there are no other records
C19_FlatObjectDiff ==
  (entry = "DiffJSON" /\ pc # "start" /\ diffOptions = DefaultDiffOptions
     /\ IsFlatObject(doc0) /\ IsFlatObject(TargetText)) =>
     /\ \A key \in KeysOf(doc0) \cup KeysOf(TargetText) :
          LET rs    == RecordsAt(diffRecords, <<"$", ".">> \o key)
              inOld == HasKey(doc0, key)
              inNew == HasKey(TargetText, key)
              equal == inOld /\ inNew /\ Member(doc0, key) = Member(TargetText, key)
          IN /\ Len(rs) = IF equal THEN 0 ELSE 1
             /\ (/\ inOld /\ inNew /\ ~equal
                 /\ Member(doc0, key).t = Member(TargetText, key).t) => rs[1].Type = "modified"
             /\ (inNew /\ ~inOld) => rs[1].Type = "added"
             /\ (inOld /\ ~inNew) => rs[1].Type = "removed"
     /\ \A i \in 1..Len(diffRecords) :
          \E key \in KeysOf(doc0) \cup KeysOf(TargetText) :
             diffRecords[i].Path = <<"$", ".">> \o key

\* two flat objects have been compared that have an equal member, a
\* modified one, one only in the old and one only in the new object, the
\* last one under a key that is no identifier
C19_Witness ==
  /\ entry = "DiffJSON" /\ pc = "diffed" /\ diffOptions = DefaultDiffOptions
  /\ doc0 = Canon(FlatOne) /\ TargetText = Canon(FlatTwo)
  /\ Len(diffRecords) = 3
  /\ \E i \in 1..3 : diffRecords[i].Type = "added" /\ diffRecords[i].Path = <<"$", ".">> \o kab

\* the records GeneratePatch translates
Translated(ds) == SelectSeq(ds, LAMBDA d : d.Type \in {"added", "removed", "modified"})

OpOf(type) ==
  CASE type = "added" -> "add"
    [] type = "removed" -> "remove"
    [] type = "modified" -> "replace"

\* C20: the patch array of GeneratePatch holds one operation for each
\* added, removed or modified record, in the order of the records: add with
\* the record's NewValue, remove without value, replace with the record's
\* NewValue; records of the other types give no operation
C20_GeneratePatchMapping ==
  pc = "generated" =>
     LET kept == Translated(diffRecords)
     IN /\ Len(patchArray) = Len(kept)
        /\ \A i \in 1..Len(kept) :
             /\ patchArray[i].op = OpOf(kept[i].Type)
             /\ patchArray[i].hasValue = (kept[i].Type # "removed")
             /\ patchArray[i].hasValue => patchArray[i].value = kept[i].NewValue

\* a patch has been generated from records among which a record that is
\* not translated comes before one that is
C20_Witness ==
  /\ pc = "generated"
  /\ \E i \in 1..Len(diffRecords), j \in 1..Len(diffRecords) :
       /\ i < j
       /\ diffRecords[i].Type \in {"type_changed", "same", "moved"}
       /\ diffRecords[j].Type \in {"added", "removed", "modified"}
  /\ Len(patchArray) >= 1
  /\ Len(patchArray) < Len(diffRecords)

\* a finite set of strings as the list of its elements in ascending byte
\* order
RECURSIVE Ascending(_)
Ascending(S) ==
  IF S = {} THEN <<>>
  ELSE LET least == CHOOSE x \in S : \A y \in S \ {x} : StrLess(x, y)
       IN <<least>> \o Ascending(S \ {least})

\* the locations of two texts in the order of the claim: a location, then,
\* when both texts hold an object there, the members of either in ascending
\* key order, or, when both hold an array, the elements of either in
\* ascending index order, each with its whole sub-tree before the next
MemberPath(path, key) ==
  IF path = <<"$">> \/ isValidIdentifier(key)
  THEN path \o <<".">> \o key
  ELSE path \o <<"[", "'">> \o key \o <<"'", "]">>

ElementPath(path, i) == path \o <<"[">> \o IntToStr(i) \o <<"]">>

RECURSIVE VisitOrder(_, _, _), VisitMembers(_, _, _, _), VisitElements(_, _, _, _)
VisitMembers(old, new, path, keys) ==
  IF keys = <<>> THEN <<>>
  ELSE LET key == Head(keys)
           pp  == MemberPath(path, key)
       IN (IF HasKey(old, key) /\ HasKey(new, key)
           THEN VisitOrder(Member(old, key), Member(new, key), pp)
           ELSE <<pp>>)
          \o VisitMembers(old, new, path, Tail(keys))

VisitElements(old, new, path, i) ==
  IF i >= Len(old.kids) /\ i >= Len(new.kids) THEN <<>>
  ELSE LET pp == ElementPath(path, i)
       IN (IF i < Len(old.kids) /\ i < Len(new.kids)
           THEN VisitOrder(old.kids[i + 1].v, new.kids[i + 1].v, pp)
           ELSE <<pp>>)
          \o VisitElements(old, new, path, i + 1)

VisitOrder(old, new, path) ==
  <<path>> \o
  (IF old.t = "object" /\ new.t = "object"
   THEN VisitMembers(old, new, path, Ascending(KeysOf(old) \cup KeysOf(new)))
   ELSE IF old.t = "array" /\ new.t = "array"
   THEN VisitElements(old, new, path, 0)
   ELSE <<>>)

\* s can be had from t by leaving elements out
RECURSIVE IsSubsequence(_, _)
IsSubsequence(s, t) ==
  IF s = <<>> THEN TRUE
  ELSE IF t = <<>> THEN FALSE
  ELSE IF Head(s) = Head(t) THEN IsSubsequence(Tail(s), Tail(t))
  ELSE IsSubsequence(s, Tail(t))

\* the records as texts: type, path and the texts of the two values
RecordTexts(h, ds) ==
  [i \in 1..Len(ds) |->
     [Type |-> ds[i].Type, Path |-> ds[i].Path,
      OldValue |-> ValueToInterface(h, ds[i].OldValue),
      NewValue |-> ValueToInterface(h, ds[i].NewValue)]]

\* the records of the diff of two texts built with their keys inserted in
\* ascending order
DiffOfSorted(old, new, opts) ==
  LET compared(b1, b2) == RecordTexts(b2.h, DiffJSON(b2.h, b1.v, b2.v, opts))
      second(b1) == compared(b1, Build(b1.h, Canon(new)))
  IN second(Build(<<>>, Canon(old)))

\* C21: the records of DiffJSON come in the order of the locations: members
\* of an object by ascending key, elements of an array by ascending index,
\* the records of a sub-tree together; and the records are those of the
\* same two values built with another insertion order of their keys
C21_EmissionOrder ==
  (entry = "DiffJSON" /\ pc # "start") =>
     /\ IsSubsequence([i \in 1..Len(diffRecords) |-> diffRecords[i].Path],
                      VisitOrder(doc0, TargetText, <<"$">>))
     /\ RecordTexts(heap, diffRecords) = DiffOfSorted(doc0, TargetText, diffOptions)

\* an object whose keys were not inserted in ascending order has been
\* compared, with records at three of its members
C21_Witness ==
  /\ entry = "DiffJSON" /\ pc = "diffed"
  /\ doc.t = "object"
  /\ Keys(heap, doc.n) = <<kb, kc, ka>>
  /\ Len(diffRecords) >= 3
  /\ diffRecords[1].Path = <<"$", ".", "a">>

\* the token list names a member or an element that its parent, an object
\* or an array of the text, does not hold: an absent key, an index not
\* below the size, or the append marker
IsAbsentInParent(lit, toks) ==
  /\ toks # <<>>
  /\ LitAt(lit, ParentTokens(toks)).ok
  /\ LitAt(lit, ParentTokens(toks)).v.t \in {"object", "array"}
  /\ ~LitAt(lit, toks).ok
  /\ LitAt(lit, ParentTokens(toks)).v.t = "array"
       => (LastToken(toks) = <<"-">> \/ IndexToken(LastToken(toks)))

FailedWithError == pc = "done" /\ err # "" /\ ret.nil

\* C22: in ApplyPatch a remove, a replace or a test whose final segment is
\* a key its parent object does not hold, or an index not below the size of
\* its parent array (the append marker included), fails with an error, and
\* so does a move or a copy whose from addresses no value
C22_AbsentTargetFails ==
  (entry = "ApplyPatch" /\ ~target.on /\ Len(ops) = 1 /\ Finished) =>
     /\ (ops[1].op \in {"remove", "replace", "test"}
         /\ IsAbsentInParent(doc0, PointerTokens(ops[1].path))) => FailedWithError
     /\ (ops[1].op \in {"move", "copy"}
         /\ ~LitAt(doc0, PointerTokens(ops[1].from)).ok) => FailedWithError

\* C23: in ApplyPatch an add whose final segment is a number greater than
\* the size of the array its parent path addresses fails with
\* INDEX_OUT_OF_RANGE and returns no document
C23_AddBeyondEndFails ==
  (IsSingle("add") /\ ops[1].value.t # "absent" /\ Finished
     /\ LET T == PointerTokens(ops[1].path)
        IN /\ T # <<>>
           /\ LitAt(doc0, ParentTokens(T)).ok
           /\ LitAt(doc0, ParentTokens(T)).v.t = "array"
           /\ IndexToken(LastToken(T))
           /\ DigitsToInt(LastToken(T)) > Len(LitAt(doc0, ParentTokens(T)).v.kids))
    => (pc = "done" /\ err = "INDEX_OUT_OF_RANGE" /\ ret.nil)

\* C24: in ApplyPatch a replace whose pointer has two or more segments and
\* addresses a value of the document succeeds, whatever the keys of the
\* members on the way look like, and the returned document holds the new
\* value there
C24_EveryMemberReached ==
  (IsSingle("replace") /\ ops[1].value.t # "absent" /\ Finished
     /\ Len(PointerTokens(ops[1].path)) >= 2
     /\ LitAt(doc0, PointerTokens(ops[1].path)).ok) =>
     /\ Succeeded
     /\ LitAt(RetText, PointerTokens(ops[1].path)).ok
     /\ Canon(LitAt(RetText, PointerTokens(ops[1].path)).v) = Canon(ops[1].value)

\* C25: a call of ApplyPatch never aborts with a runtime panic: it ends by
\* returning a document or an error
C25_ApplyPatchIsTotal ==
  (entry = "ApplyPatch" /\ ~target.on) => pc # "panic"

\* the paths of the locations of two texts nested at most m levels below
\* the location at path
RECURSIVE Within(_, _, _, _)
Within(old, new, path, m) ==
  {path} \cup
  (IF m = 0 THEN {}
   ELSE IF old.t = "object" /\ new.t = "object"
   THEN UNION {IF HasKey(old, key) /\ HasKey(new, key)
               THEN Within(Member(old, key), Member(new, key), MemberPath(path, key), m - 1)
               ELSE {MemberPath(path, key)} : key \in KeysOf(old) \cup KeysOf(new)}
   ELSE IF old.t = "array" /\ new.t = "array"
   THEN UNION {IF i < Len(old.kids) /\ i < Len(new.kids)
               THEN Within(old.kids[i + 1].v, new.kids[i + 1].v, ElementPath(path, i), m - 1)
               ELSE {ElementPath(path, i)} :
                  i \in 0..(IF Len(old.kids) > Len(new.kids)
                            THEN Len(old.kids) ELSE Len(new.kids)) - 1}
   ELSE {})

\* C26: with MaxDepth = m > 0 the result of DiffJSON holds no record, of
\* any kind, for a location nested more than m levels below the root
C26_MaxDepthBoundsRecords ==
  (entry = "DiffJSON" /\ pc # "start" /\ diffOptions.MaxDepth > 0) =>
     \A i \in 1..Len(diffRecords) :
        diffRecords[i].Path \in Within(doc0, TargetText, <<"$">>, diffOptions.MaxDepth)

\* C27: no two records of one result of DiffJSON have the same path
C27_DistinctPaths ==
  (entry = "DiffJSON" /\ pc # "start") =>
     \A i \in 1..Len(diffRecords), j \in 1..Len(diffRecords) :
        i # j => diffRecords[i].Path # diffRecords[j].Path

\* C28: with the default options the result of DiffJSON(A, B) is empty iff
\* A and B are equal under compareValues
C28_EmptyIffEqual ==
  (entry = "DiffJSON" /\ pc # "start" /\ diffOptions = DefaultDiffOptions) =>
     (diffRecords = <<>> <=> compareValues(heap, doc, target.v))

\* two trees built apart that hold the same object with an array in it have
\* been compared and no record was made
C28_Witness ==
  /\ entry = "DiffJSON" /\ pc = "diffed" /\ diffOptions = DefaultDiffOptions
  /\ doc.t = "object" /\ doc # target.v
  /\ \E i \in 1..Len(doc0.kids) : doc0.kids[i].v.t = "array"
  /\ diffRecords = <<>>

\* JSONObject.Patch on a fresh tree of the object text d: the loop over the
\* operations from a state of the copy on, and the whole call
RECURSIVE PatchFrom(_, _, _)
PatchFrom(h, o, patchOps) ==
  IF patchOps = <<>> THEN [err |-> "", text |-> ValueToInterface(h, o)]
  ELSE LET next(r) ==
             IF r.err # "" THEN [err |-> r.err, text |-> LNull]
             ELSE PatchFrom(r.h, o, Tail(patchOps))
       IN next(JSONObject_applyOperation(h, o.n, Head(patchOps), FALSE))

PatchOf(d, patchOps) ==
  LET cloned(c) == PatchFrom(c.h, c.v, patchOps)
      built(b) == cloned(Clone(b.h, b.v.n))
  IN built(Build(<<>>, d))

\* C29: JSONObject.Patch with one move whose from addresses a value v of
\* the receiver has the outcome of the patch [remove(from), add(path, v)]:
\* both fail, or both return deep-equal documents; and after a successful
\* move v is at path, also when from and path are the same location
C29_MoveIsRemoveThenAdd ==
  (IsSinglePatch("move") /\ Finished
     /\ LitAt(doc0, PointerTokens(ops[1].from)).ok) =>
     LET v == LitAt(doc0, PointerTokens(ops[1].from)).v
         two == PatchOf(doc0, << PatchOperation("remove", ops[1].from, NoValue, <<>>),
                                 PatchOperation("add", ops[1].path, v, <<>>) >>)
     IN /\ Succeeded <=> two.err = ""
        /\ Succeeded => Canon(RetText) = Canon(two.text)
        /\ Succeeded =>
             /\ LitAtDest(RetText, PointerTokens(ops[1].path)).ok
             /\ Canon(LitAtDest(RetText, PointerTokens(ops[1].path)).v) = Canon(v)

\* a reference token read from left to right: ~0 stands for ~ and ~1 for /
RECURSIVE DecodeToken(_)
DecodeToken(seg) ==
  IF seg = <<>> THEN <<>>
  ELSE IF Len(seg) >= 2 /\ seg[1] = "~" /\ seg[2] = "0"
  THEN <<"~">> \o DecodeToken(SubSeq(seg, 3, Len(seg)))
  ELSE IF Len(seg) >= 2 /\ seg[1] = "~" /\ seg[2] = "1"
  THEN <<"/">> \o DecodeToken(SubSeq(seg, 3, Len(seg)))
  ELSE <<Head(seg)>> \o DecodeToken(Tail(seg))

\* the segments between the slashes of a string, the one being read last
RECURSIVE SegmentsOf(_, _)
SegmentsOf(chars, current) ==
  IF chars = <<>> THEN <<current>>
  ELSE IF Head(chars) = "/" THEN <<current>> \o SegmentsOf(Tail(chars), <<>>)
  ELSE SegmentsOf(Tail(chars), Append(current, Head(chars)))

\* C30: parsePath gives the empty list for "" and "/", and for any other
\* string the decoded segments between its slashes, one leading slash
\* dropped; ~01 decodes to ~1 and never to /
C30_ParsePath ==
  (entry = "parsePath" /\ pc = "parsed") =>
     LET p == ops[1].path
         segs == SegmentsOf(IF p[1] = "/" THEN Tail(p) ELSE p, <<>>)
     IN /\ p \in {<<>>, <<"/">>} => pathParts = <<>>
        /\ p \notin {<<>>, <<"/">>} =>
             pathParts = [i \in 1..Len(segs) |-> DecodeToken(segs[i])]
        /\ p = <<"/", "~", "0", "1">> => pathParts = << <<"~", "1">> >>

\* the pointer /~01 has been parsed
C30_Witness ==
  /\ entry = "parsePath" /\ pc = "parsed"
  /\ ops[1].path = <<"/", "~", "0", "1">>
  /\ pathParts = << <<"~", "1">> >>

====
